---- MODULE Spec2Model ----
(***************************************************************************)
(* assistente-dowbor: the ingestion pipeline (scripts/ingest.ts) over the  *)
(* storage schema (books, chunks, ingestion_runs), and the query side      *)
(* (lib/chunker.ts, lib/retrieval.ts, lib/prompt.ts, lib/logger.ts and the *)
(* search and chat handlers).  One process is one invocation of the ingest *)
(* script; every storage call and every embedding attempt is one atomic    *)
(* step, so a process can be terminated, or another invocation can run,    *)
(* between any two calls.  The library functions and the handlers are      *)
(* called on inputs drawn from bounded sets.                               *)
(***************************************************************************)
EXTENDS Integers, Sequences, FiniteSets, TLC

\* ------------------------------------------------------------------ bounds
\* Total number of ingest invocations a behaviour starts.
MaxInvocations == 3
\* The long document has BATCH_SIZE + ExtraChunks chunks (two batches).
ExtraChunks == 1
\* The short document has this many chunks (one batch).
ShortDocChunks == 2
\* Number of storage calls that fail in a behaviour of sequential invocations.
MaxFaults == 1
\* Number of storage calls that fail in a behaviour of overlapping invocations.
MaxOverlapFaults == 2
\* Longest list of passages assembleContext is called on.
MaxResults == 3
\* Longest page sequence chunkPages is called on.
MaxPages == 2

\* Longest answer the language model streams, in pieces with text.
MaxAnswerChunks == 2

\* ------------------------------------------------------- program constants
\* chunker.ts: const BATCH_SIZE = 100
BATCH_SIZE == 100
\* ingest.ts: withRetry(fn, maxRetries = 5)
maxRetries == 5

\* ------------------------------------------------------------------ inputs
Procs == {1, 2}
Slugs == {"s1"}
\* pdfHash of the bytes given with --file: two document versions.
PdfHashes == {"hLong", "hShort"}

\* Outcomes of one call of openai.embeddings.create: the response, or an error
\* thrown: one of status 429, one of another status whose message does not
\* hold "429", one of another status whose message holds "429".
EmbedOutcomes == {"ok", "429", "error", "error429"}

VARIABLES
    books,            \* table books, in insertion order; id = position
    chunks,           \* table chunks, in insertion order; id = position
    ingestion_runs,   \* table ingestion_runs, in insertion order; id = position
    pc,               \* per process: the call of main() it is about to make
    loc,              \* per process: the local variables of main()
    embedded,         \* embedding service: <<book id, chunkHash>> -> times embedded
    invocations,      \* number of invocations started so far
    faults,           \* number of storage calls that may still fail
    finished,         \* the <<slug, pdfHash>> of the invocations that returned from main()
    chunker,          \* one call of chunkPages: its argument and its result
    context,          \* one call of assembleContext: its argument, locals and result
    retrieval,        \* one call of retrieve: its options, locals, calls made and result
    request,          \* one request to the search or chat handler and its response
    search_logs       \* table search_logs, in insertion order

\* The variables of the ingestion pipeline and those of the query side.
ingestVars == <<books, chunks, ingestion_runs, pc, loc, embedded, invocations, faults, finished>>
libVars == <<chunker, context, retrieval, request, search_logs>>

vars == <<books, chunks, ingestion_runs, pc, loc, embedded, invocations, faults, finished,
          chunker, context, retrieval, request, search_logs>>

\* --------------------------------------------------------------- documents
\* Number of chunks chunkPages returns for the document with this pdfHash.
NumChunks(h) == IF h = "hLong" THEN BATCH_SIZE + ExtraChunks ELSE ShortDocChunks

\* chunkHash of the chunk at 0-based index i: SHA-256 of its content, here the
\* identity of the content.  In the long document chunks 1 and 2 have equal
\* content, hence equal hashes: chunkPages returns such chunks for a paragraph
\* repeated verbatim (equal text after an equal overlap tail).
ContentHash(h, i) == IF h = "hLong" /\ i = 2 THEN 1 ELSE i

\* const chunks = chunkPages(pages): the TextChunk sequence of the document.
DocChunks(h) ==
    [i \in 1..NumChunks(h) |-> [chunkIndex |-> i - 1, chunkHash |-> ContentHash(h, i - 1),
                                content |-> ContentHash(h, i - 1)]]

\* ----------------------------------------------------------------- helpers
\* PostgREST .single(): the row when exactly one row matches, else null (0).
Single(S) == IF Cardinality(S) = 1 THEN CHOOSE x \in S : TRUE ELSE 0

Max(S) == CHOOSE x \in S : \A y \in S : y <= x

Min2(a, b) == IF a < b THEN a ELSE b

\* Array.prototype.slice(from) / slice(from, to) on a 1-based sequence,
\* with 0-based from (inclusive) and to (exclusive).
Slice(s, from, to) == SubSeq(s, Min2(from, Len(s)) + 1, Min2(to, Len(s)))

\* Ids of the books with this slug that are active.
ActiveBooks(slug) == {b \in DOMAIN books : books[b].slug = slug /\ books[b].is_active}

\* The local variables of main() before its first statement.
InitLoc == [slug |-> "", pdfHash |-> "", bookId |-> 0, oldBook |-> 0, runId |-> 0,
            resumeFrom |-> 0, processed |-> 0, skipped |-> 0, batchStart |-> 0,
            newChunks |-> <<>>, attempt |-> 0, calls |-> 0, lastOutcome |-> "",
            embeddingResponse |-> <<>>, embeddings |-> <<>>,
            error |-> "",
            activeAtStart |-> {}, runAtStart |-> 0, lastAtStart |-> -1,
            rerun |-> FALSE]

Running(p) == pc[p] \notin {"idle", "done", "exited", "killed"}

\* No library function has been called and no request has been made.
NotCalled == [pc |-> "idle"]

NoCalls ==
    /\ chunker = NotCalled
    /\ context = NotCalled
    /\ retrieval = NotCalled
    /\ request = NotCalled
    /\ search_logs = <<>>

\* The empty schema, no invocation started; n storage calls may fail.
InitWith(n) ==
    /\ books = <<>>
    /\ chunks = <<>>
    /\ ingestion_runs = <<>>
    /\ pc = [p \in Procs |-> "idle"]
    /\ loc = [p \in Procs |-> InitLoc]
    /\ embedded = <<>>
    /\ invocations = 0
    /\ faults = n
    /\ finished = {}
    /\ NoCalls

Init == InitWith(MaxFaults)

\* ------------------------------------------------------------ invocation
\* The IngestionRun a resumed invocation of (slug, h) is expected to find: the
\* newest run that is running for the Book row (slug, h), 0 when there is none.
RunningRunOf(slug, h) ==
    LET R == {r \in DOMAIN ingestion_runs :
                /\ ingestion_runs[r].status = "running"
                /\ ingestion_runs[r].pdf_hash = h
                /\ books[ingestion_runs[r].book_id].slug = slug
                /\ books[ingestion_runs[r].book_id].pdf_hash = h}
    IN IF R = {} THEN 0 ELSE Max(R)

\* const chunksToProcess = chunks.slice(resumeFrom)
chunksToProcess(p) ==
    Slice(DocChunks(loc[p].pdfHash), loc[p].resumeFrom, NumChunks(loc[p].pdfHash))

\* const batch = chunksToProcess.slice(batchStart, batchStart + BATCH_SIZE)
Batch(p) == Slice(chunksToProcess(p), loc[p].batchStart, loc[p].batchStart + BATCH_SIZE)

\* The loop as it would be if it ended after its first batch.
LoopPcOneBatch(h, resumeFrom, batchStart) ==
    IF batchStart = 0 /\ NumChunks(h) > Min2(resumeFrom, NumChunks(h))
    THEN "layer1" ELSE "finalizeRun"

\* for (batchStart ...; batchStart < chunksToProcess.length; ...): the call made
\* next with the loop variable at batchStart.
LoopPc(h, resumeFrom, batchStart) ==
    IF batchStart < NumChunks(h) - Min2(resumeFrom, NumChunks(h))
    THEN "layer1" ELSE "finalizeRun"

\* A storage call returns its data (ok) or an error; a failure uses up one of
\* the failures the behaviour may still see.
Storage(ok) ==
    /\ ok \/ faults > 0
    /\ faults' = IF ok THEN faults ELSE faults - 1

\* main() is entered with the parsed arguments and the hash of the file.
Start(p, slug, h) ==
    /\ ~Running(p)
    /\ invocations < MaxInvocations
    /\ invocations' = invocations + 1
    /\ pc' = [pc EXCEPT ![p] = "existingBook"]
    /\ loc' = [loc EXCEPT ![p] =
                 [InitLoc EXCEPT !.slug = slug, !.pdfHash = h,
                                 !.activeAtStart = ActiveBooks(slug),
                                 !.rerun = <<slug, h>> \in finished,
                                 !.runAtStart = RunningRunOf(slug, h),
                                 !.lastAtStart =
                                     IF RunningRunOf(slug, h) = 0 THEN -1
                                     ELSE ingestion_runs[RunningRunOf(slug, h)]
                                              .last_processed_chunk_index]]
    /\ UNCHANGED <<books, chunks, ingestion_runs, embedded, faults, finished>>
    /\ UNCHANGED libVars

\* 2. select from books where slug, pdf_hash, is_active = true, .single()
LookupExistingBook(p, ok) ==
    /\ pc[p] = "existingBook"
    /\ Storage(ok)
    /\ LET existingBook ==
             IF ok THEN Single({b \in ActiveBooks(loc[p].slug) :
                                   books[b].pdf_hash = loc[p].pdfHash})
             ELSE 0
       IN /\ loc' = [loc EXCEPT ![p].bookId = existingBook]
          /\ pc' = [pc EXCEPT ![p] = IF existingBook # 0 THEN "existingRun" ELSE "oldBook"]
    /\ UNCHANGED <<books, chunks, ingestion_runs, embedded, invocations, finished>>
    /\ UNCHANGED libVars

\* 5. select from books where slug, is_active = true, .single()
LookupOldBook(p, ok) ==
    /\ pc[p] = "oldBook"
    /\ Storage(ok)
    /\ LET oldBook == IF ok THEN Single(ActiveBooks(loc[p].slug)) ELSE 0
       IN /\ loc' = [loc EXCEPT ![p].oldBook = oldBook]
          /\ pc' = [pc EXCEPT ![p] = IF oldBook # 0 THEN "deactivate" ELSE "insertBook"]
    /\ UNCHANGED <<books, chunks, ingestion_runs, embedded, invocations, finished>>
    /\ UNCHANGED libVars

\* update books set is_active = false where id = oldBook.id (result not read)
DeactivateOld(p, ok) ==
    /\ pc[p] = "deactivate"
    /\ Storage(ok)
    /\ books' = IF ok THEN [books EXCEPT ![loc[p].oldBook].is_active = FALSE] ELSE books
    /\ pc' = [pc EXCEPT ![p] = "insertBook"]
    /\ UNCHANGED <<chunks, ingestion_runs, loc, embedded, invocations, finished>>
    /\ UNCHANGED libVars

\* The books table accepts the row: books_slug_hash_unique UNIQUE (slug, pdf_hash).
BookInsertAccepted(slug, h) ==
    \A b \in DOMAIN books : ~(books[b].slug = slug /\ books[b].pdf_hash = h)

\* insert into books (..., is_active: false); process.exit(1) on error
InsertBook(p, ok) ==
    /\ pc[p] = "insertBook"
    /\ Storage(ok)
    /\ IF ok /\ BookInsertAccepted(loc[p].slug, loc[p].pdfHash)
       THEN /\ books' = Append(books, [slug |-> loc[p].slug, pdf_hash |-> loc[p].pdfHash,
                                       total_chunks |-> NumChunks(loc[p].pdfHash),
                                       is_active |-> FALSE])
            /\ loc' = [loc EXCEPT ![p].bookId = Len(books) + 1]
            /\ pc' = [pc EXCEPT ![p] = "existingRun"]
       ELSE /\ books' = books
            /\ loc' = [loc EXCEPT ![p].error = "book_insert"]
            /\ pc' = [pc EXCEPT ![p] = "exited"]
    /\ UNCHANGED <<chunks, ingestion_runs, embedded, invocations, finished>>
    /\ UNCHANGED libVars

\* 6. select from ingestion_runs where book_id, pdf_hash, status = 'running'
\*    order by started_at desc limit 1
LookupExistingRun(p, ok) ==
    /\ pc[p] = "existingRun"
    /\ Storage(ok)
    /\ LET R == {r \in DOMAIN ingestion_runs :
                   /\ ingestion_runs[r].book_id = loc[p].bookId
                   /\ ingestion_runs[r].pdf_hash = loc[p].pdfHash
                   /\ ingestion_runs[r].status = "running"}
           existingRun == IF ok /\ R # {} THEN Max(R) ELSE 0
           resumeFrom == ingestion_runs[existingRun].last_processed_chunk_index + 1
       IN IF existingRun # 0
          THEN /\ loc' = [loc EXCEPT ![p].runId = existingRun, ![p].resumeFrom = resumeFrom]
               /\ pc' = [pc EXCEPT ![p] = LoopPc(loc[p].pdfHash, resumeFrom, 0)]
          ELSE /\ loc' = loc
               /\ pc' = [pc EXCEPT ![p] = "insertRun"]
    /\ UNCHANGED <<books, chunks, ingestion_runs, embedded, invocations, finished>>
    /\ UNCHANGED libVars

\* insert into ingestion_runs (status: 'running', ...); process.exit(1) on error
InsertRun(p, ok) ==
    /\ pc[p] = "insertRun"
    /\ Storage(ok)
    /\ IF ok
       THEN /\ ingestion_runs' = Append(ingestion_runs,
                  [book_id |-> loc[p].bookId, status |-> "running",
                   pdf_hash |-> loc[p].pdfHash, chunks_processed |-> 0,
                   chunks_skipped |-> 0, last_processed_chunk_index |-> -1,
                   error_message |-> ""])
            /\ loc' = [loc EXCEPT ![p].runId = Len(ingestion_runs) + 1]
            /\ pc' = [pc EXCEPT ![p] = LoopPc(loc[p].pdfHash, 0, 0)]
       ELSE /\ ingestion_runs' = ingestion_runs
            /\ loc' = [loc EXCEPT ![p].error = "run_insert"]
            /\ pc' = [pc EXCEPT ![p] = "exited"]
    /\ UNCHANGED <<books, chunks, embedded, invocations, finished>>
    /\ UNCHANGED libVars

\* ------------------------------------------------------------- batch loop
\* Hashes the chunks table holds for the book.
StoredHashes(bookId) ==
    {chunks[i].chunk_hash : i \in {j \in DOMAIN chunks : chunks[j].book_id = bookId}}

\* Layer 1: the batch's chunks whose hash the select did not return.
\* existing is the data of the select: null (read as []) when the call failed.
NewChunks(batch, existing) ==
    LET isNew(c) == c.chunkHash \notin existing
    IN SelectSeq(batch, isNew)

\* select chunk_hash from chunks where book_id = bookId and chunk_hash in hashes
Layer1(p, ok) ==
    /\ pc[p] = "layer1"
    /\ Storage(ok)
    /\ LET batch == Batch(p)
           existing == IF ok THEN StoredHashes(loc[p].bookId) ELSE {}
           newChunks == NewChunks(batch, existing)
       IN /\ loc' = [loc EXCEPT ![p].newChunks = newChunks,
                                ![p].skipped = @ + (Len(batch) - Len(newChunks)),
                                ![p].attempt = 0,
                                ![p].calls = 0,
                                ![p].lastOutcome = ""]
          /\ pc' = [pc EXCEPT ![p] = IF Len(newChunks) > 0 THEN "embed" ELSE "progress"]
    /\ UNCHANGED <<books, chunks, ingestion_runs, embedded, invocations, finished>>
    /\ UNCHANGED libVars

\* The embedding service after it has embedded the texts of one request: every
\* input of the request counts once for its content.
Embed(log, bookId, texts) ==
    LET keys == {<<bookId, texts[i].chunkHash>> : i \in DOMAIN texts}
        times(k) == Cardinality({i \in DOMAIN texts : texts[i].chunkHash = k[2]})
        before(k) == IF k \in DOMAIN log THEN log[k] ELSE 0
    IN [k \in (DOMAIN log) \cup keys |-> IF k \in keys THEN before(k) + times(k) ELSE log[k]]

\* const isRateLimit = err?.status === 429 || err?.message?.includes('429')
isRateLimit(outcome) == outcome = "429" \/ outcome = "error429"

\* withRetry: the catch branch rethrows unless the error is a rate limit and
\* attempts are left.
RetryGivesUp(outcome, attempt) == ~isRateLimit(outcome) \/ attempt = maxRetries

\* The embedding the service computes for a text: a value that tells of which
\* content it is.
EmbeddingOf(content) == [of |-> content]

\* The orders in which the service lists the embeddings of a request, and the
\* declared index of the entry at position k of n under each.
ProviderOrders == {"asSent", "reversed", "rotated"}

DeclaredIndex(order, k, n) ==
    CASE order = "asSent" -> k - 1
      [] order = "reversed" -> n - k
      [] order = "rotated" -> k % n

\* embeddingResponse.data: one entry per input, each with the index of its
\* input in the request, listed in the given order.
ProviderData(texts, order) ==
    [k \in DOMAIN texts |->
        [index |-> DeclaredIndex(order, k, Len(texts)),
         embedding |-> EmbeddingOf(texts[DeclaredIndex(order, k, Len(texts)) + 1].content)]]

\* The embeddings as they would be taken without the sort.
EmbeddingsAsReturned(data) == [i \in DOMAIN data |-> data[i].embedding]

\* embeddingResponse.data.sort((a, b) => a.index - b.index).map(d => d.embedding):
\* the declared indexes of a response are 0 .. n - 1, each once, so the entry
\* the sort puts at position i is the one that declares i - 1.
SortedEmbeddings(data) ==
    [i \in DOMAIN data |-> data[CHOOSE k \in DOMAIN data : data[k].index = i - 1].embedding]

\* One iteration of withRetry's loop: one call of openai.embeddings.create,
\* whose response, when there is one, lists the embeddings in the given order.
EmbedAttempt(p, outcome, order) ==
    /\ pc[p] = "embed"
    /\ loc[p].attempt <= maxRetries
    /\ IF outcome = "ok"
       THEN /\ embedded' = Embed(embedded, loc[p].bookId, loc[p].newChunks)
            /\ LET data == ProviderData(loc[p].newChunks, order)
               IN loc' = [loc EXCEPT ![p].calls = @ + 1, ![p].attempt = 0,
                                     ![p].lastOutcome = outcome,
                                     ![p].embeddingResponse = data,
                                     ![p].embeddings = SortedEmbeddings(data)]
            /\ pc' = [pc EXCEPT ![p] = "upsert"]
       ELSE /\ embedded' = embedded
            /\ IF RetryGivesUp(outcome, loc[p].attempt)
               THEN \* thrown out of main(): main().catch -> process.exit(1)
                    /\ loc' = [loc EXCEPT ![p].calls = @ + 1, ![p].error = outcome,
                                          ![p].lastOutcome = outcome]
                    /\ pc' = [pc EXCEPT ![p] = "exited"]
               ELSE /\ loc' = [loc EXCEPT ![p].calls = @ + 1, ![p].attempt = @ + 1,
                                          ![p].lastOutcome = outcome]
                    /\ pc' = pc
    /\ UNCHANGED <<books, chunks, ingestion_runs, invocations, faults, finished>>
    /\ UNCHANGED libVars

\* The rows as they would be if chunk_index counted within the request.
RowsIndexedInRequest(bookId, resumeFrom, newChunks, embeddings) ==
    [i \in DOMAIN newChunks |->
        [book_id |-> bookId,
         chunk_index |-> i - 1,
         chunk_hash |-> newChunks[i].chunkHash,
         content |-> newChunks[i].content,
         embedding |-> embeddings[i]]]

\* rows = newChunks.map(...): the rows of the batch's insert.
Rows(bookId, resumeFrom, newChunks, embeddings) ==
    [i \in DOMAIN newChunks |->
        [book_id |-> bookId,
         chunk_index |-> newChunks[i].chunkIndex + resumeFrom,
         chunk_hash |-> newChunks[i].chunkHash,
         content |-> newChunks[i].content,
         embedding |-> embeddings[i]]]

\* The insert as it would be with ignoreDuplicates: false (ON CONFLICT DO
\* UPDATE): a row of the table whose key a new row has takes the values of the
\* last such row.
UpsertUpdatesDuplicates(table, rows) ==
    LET held == {<<table[j].book_id, table[j].chunk_hash>> : j \in DOMAIN table}
        same(j) == {k \in DOMAIN rows : /\ rows[k].book_id = table[j].book_id
                                        /\ rows[k].chunk_hash = table[j].chunk_hash}
        earlier(r) == \E k \in DOMAIN rows :
                         /\ rows[k].chunk_hash = r.chunk_hash
                         /\ rows[k].book_id = r.book_id
                         /\ rows[k].chunk_index < r.chunk_index
        inserted(r) == <<r.book_id, r.chunk_hash>> \notin held /\ ~earlier(r)
    IN [j \in DOMAIN table |-> IF same(j) = {} THEN table[j] ELSE rows[Max(same(j))]]
       \o SelectSeq(rows, inserted)

\* The insert as it would be without the conflict clause reaching the table.
UpsertAlwaysInserts(table, rows) == table \o rows

\* upsert(rows, {onConflict: 'book_id,chunk_hash', ignoreDuplicates: true}):
\* INSERT ... ON CONFLICT (book_id, chunk_hash) DO NOTHING.  A row is inserted
\* unless the table, or an earlier row of the same statement, holds its key;
\* rows come in chunk order.
UpsertIgnoreDuplicates(table, rows) ==
    LET held == {<<table[j].book_id, table[j].chunk_hash>> : j \in DOMAIN table}
        earlier(r) == \E k \in DOMAIN rows :
                         /\ rows[k].chunk_hash = r.chunk_hash
                         /\ rows[k].book_id = r.book_id
                         /\ rows[k].chunk_index < r.chunk_index
        inserted(r) == <<r.book_id, r.chunk_hash>> \notin held /\ ~earlier(r)
    IN table \o SelectSeq(rows, inserted)

\* insert of the batch's rows; on insertError the run is marked failed
Upsert(p, ok) ==
    /\ pc[p] = "upsert"
    /\ Storage(ok)
    /\ IF ok
       THEN /\ chunks' = UpsertIgnoreDuplicates(
                            chunks, Rows(loc[p].bookId, loc[p].resumeFrom, loc[p].newChunks,
                                         loc[p].embeddings))
            /\ loc' = [loc EXCEPT ![p].processed = @ + Len(loc[p].newChunks),
                                  ![p].calls = 0, ![p].embeddingResponse = <<>>,
                                  ![p].embeddings = <<>>]
            /\ pc' = [pc EXCEPT ![p] = "progress"]
       ELSE /\ chunks' = chunks
            /\ loc' = [loc EXCEPT ![p].error = "insert_error", ![p].calls = 0,
                                  ![p].embeddingResponse = <<>>, ![p].embeddings = <<>>]
            /\ pc' = [pc EXCEPT ![p] = "markFailed"]
    /\ UNCHANGED <<books, ingestion_runs, embedded, invocations, finished>>
    /\ UNCHANGED libVars

\* update ingestion_runs set status = 'failed', error_message where id = runId;
\* process.exit(1)
MarkFailed(p, ok) ==
    /\ pc[p] = "markFailed"
    /\ Storage(ok)
    /\ ingestion_runs' =
         IF ok THEN [ingestion_runs EXCEPT ![loc[p].runId].status = "failed",
                                           ![loc[p].runId].error_message = loc[p].error]
         ELSE ingestion_runs
    /\ pc' = [pc EXCEPT ![p] = "exited"]
    /\ UNCHANGED <<books, chunks, loc, embedded, invocations, finished>>
    /\ UNCHANGED libVars

\* update ingestion_runs set chunks_processed, chunks_skipped,
\* last_processed_chunk_index where id = runId; then batchStart += BATCH_SIZE
Progress(p, ok) ==
    /\ pc[p] = "progress"
    /\ Storage(ok)
    /\ LET lastChunkIndex == loc[p].resumeFrom + loc[p].batchStart + Len(Batch(p)) - 1
       IN ingestion_runs' =
            IF ok THEN [ingestion_runs EXCEPT
                          ![loc[p].runId].chunks_processed = loc[p].processed,
                          ![loc[p].runId].chunks_skipped = loc[p].skipped,
                          ![loc[p].runId].last_processed_chunk_index = lastChunkIndex]
            ELSE ingestion_runs
    /\ loc' = [loc EXCEPT ![p].batchStart = @ + BATCH_SIZE, ![p].newChunks = <<>>]
    /\ pc' = [pc EXCEPT ![p] =
                LoopPc(loc[p].pdfHash, loc[p].resumeFrom, loc[p].batchStart + BATCH_SIZE)]
    /\ UNCHANGED <<books, chunks, embedded, invocations, finished>>
    /\ UNCHANGED libVars

\* 8. update ingestion_runs set status = 'completed', chunks_processed,
\*    chunks_skipped where id = runId
FinalizeRun(p, ok) ==
    /\ pc[p] = "finalizeRun"
    /\ Storage(ok)
    /\ ingestion_runs' =
         IF ok THEN [ingestion_runs EXCEPT
                       ![loc[p].runId].status = "completed",
                       ![loc[p].runId].chunks_processed = loc[p].processed,
                       ![loc[p].runId].chunks_skipped = loc[p].skipped]
         ELSE ingestion_runs
    /\ pc' = [pc EXCEPT ![p] = "activateBook"]
    /\ UNCHANGED <<books, chunks, loc, embedded, invocations, finished>>
    /\ UNCHANGED libVars

\* update books set is_active = true, total_chunks where id = bookId
ActivateBook(p, ok) ==
    /\ pc[p] = "activateBook"
    /\ Storage(ok)
    /\ books' = IF ok THEN [books EXCEPT ![loc[p].bookId].is_active = TRUE,
                                         ![loc[p].bookId].total_chunks =
                                             NumChunks(loc[p].pdfHash)]
                ELSE books
    /\ pc' = [pc EXCEPT ![p] = "done"]
    /\ finished' = finished \cup {<<loc[p].slug, loc[p].pdfHash>>}
    /\ UNCHANGED <<chunks, ingestion_runs, loc, embedded, invocations>>
    /\ UNCHANGED libVars

\* The process is terminated between two calls (the only cancellation there
\* is): its local variables are gone; what it was started with is remembered.
Kill(p) ==
    /\ Running(p)
    /\ pc' = [pc EXCEPT ![p] = "killed"]
    /\ loc' = [loc EXCEPT ![p] =
                 [InitLoc EXCEPT !.slug = loc[p].slug, !.pdfHash = loc[p].pdfHash,
                                 !.activeAtStart = loc[p].activeAtStart,
                                 !.runAtStart = loc[p].runAtStart,
                                 !.lastAtStart = loc[p].lastAtStart,
                                 !.rerun = loc[p].rerun]]
    /\ UNCHANGED <<books, chunks, ingestion_runs, embedded, invocations, faults, finished>>
    /\ UNCHANGED libVars

\* ---------------------------------------------------------- specifications
\* One step of invocation p, started with one of args (<<slug, pdfHash>>), other
\* than the insert failure path; outcomes are the results the embedding call
\* may have and orders the orders its response may list the embeddings in.
Step(p, args, outcomes, orders) ==
    \/ \E a \in args : Start(p, a[1], a[2])
    \/ \E ok \in BOOLEAN : LookupExistingBook(p, ok)
    \/ \E ok \in BOOLEAN : LookupOldBook(p, ok)
    \/ \E ok \in BOOLEAN : DeactivateOld(p, ok)
    \/ \E ok \in BOOLEAN : InsertBook(p, ok)
    \/ \E ok \in BOOLEAN : LookupExistingRun(p, ok)
    \/ \E ok \in BOOLEAN : InsertRun(p, ok)
    \/ \E ok \in BOOLEAN : Layer1(p, ok)
    \/ \E outcome \in outcomes, order \in orders : EmbedAttempt(p, outcome, order)
    \/ \E ok \in BOOLEAN : Upsert(p, ok)
    \/ \E ok \in BOOLEAN : Progress(p, ok)
    \/ \E ok \in BOOLEAN : FinalizeRun(p, ok)
    \/ \E ok \in BOOLEAN : ActivateBook(p, ok)

\* Invocations one after the other; storage and embedding calls may fail and the
\* process may be terminated at any point.  The embedding service lists the
\* embeddings of a response as the inputs were sent, here and below unless
\* said otherwise.
Next ==
    \/ Step(1, Slugs \X PdfHashes, EmbedOutcomes, {"asSent"})
    \/ \E ok \in BOOLEAN : MarkFailed(1, ok)
    \/ Kill(1)

Spec == Init /\ [][Next]_vars

\* Invocations one after the other, each of which may be terminated at any
\* point; every storage and embedding call succeeds (so the insert failure path,
\* MarkFailed, is never entered).
InitCrash == InitWith(0)

NextCrash == Step(1, Slugs \X PdfHashes, {"ok"}, {"asSent"}) \/ Kill(1)

SpecCrash == InitCrash /\ [][NextCrash]_vars

\* Two invocations of the same document whose calls interleave; storage and
\* embedding calls may fail.
InitOverlap == InitWith(MaxOverlapFaults)

NextOverlap ==
    \E p \in Procs :
        \/ Step(p, {<<"s1", "hShort">>}, EmbedOutcomes, {"asSent"})
        \/ \E ok \in BOOLEAN : MarkFailed(p, ok)

SpecOverlap == InitOverlap /\ [][NextOverlap]_vars

\* Two invocations whose calls interleave arbitrarily; every storage and
\* embedding call succeeds and no process is terminated.
NextInterleave == \E p \in Procs : Step(p, Slugs \X PdfHashes, {"ok"}, {"asSent"})

SpecInterleave == InitCrash /\ [][NextInterleave]_vars

\* Invocations one after the other, every call succeeding, the embedding
\* service listing the embeddings of a response in any of its orders.
NextOrders == Step(1, Slugs \X PdfHashes, {"ok"}, ProviderOrders)

SpecOrders == InitCrash /\ [][NextOrders]_vars

\* -------------------------------------------------------------------- text
\* A text is a sequence of atoms: a word (a run of characters other than white
\* space, taken as a whole) or one white-space character.
SP == " "
NL == "\n"
WhiteSpace == {SP, NL}

\* Tokens of a word under cl100k_base; a word that is not listed has one token.
WordTokens(w) ==
    CASE w \in {"a", "b", "c", "d", "e", "A"} -> 100
      [] w = "f" -> 2000
      [] w = "g" -> 1500
      [] w \in {"h", "k"} -> 1000
      [] w \in {"w30", "e30."} -> 30
      [] w = "e40." -> 40
      [] w \in {"w100", "e100."} -> 100
      [] w = "w120" -> 120
      [] OTHER -> 1

\* countTokens(text) = enc.encode(text).length: every word gives its tokens, a
\* space none (it is part of the token of the word after it) and every run of
\* line breaks one.
countTokens(text) ==
    LET tok(i) == CASE text[i] = SP -> 0
                    [] text[i] = NL -> IF i > 1 /\ text[i - 1] = NL THEN 0 ELSE 1
                    [] OTHER -> WordTokens(text[i])
        sum[i \in 0..Len(text)] == IF i = 0 THEN 0 ELSE sum[i - 1] + tok(i)
    IN sum[Len(text)]

\* String.prototype.toLowerCase on a word.
toLowerCase(w) == IF w = "A" THEN "a" ELSE w

\* text.split(/\s+/): the words of the text in order, with an empty string
\* before leading and after trailing white space ("" alone for the empty text).
SplitWhiteSpace(text) ==
    LET isWord(x) == x \notin WhiteSpace
        words == SelectSeq(text, isWord)
    IN IF text = <<>> THEN <<"">>
       ELSE (IF text[1] \in WhiteSpace THEN <<"">> ELSE <<>>)
            \o words
            \o (IF text[Len(text)] \in WhiteSpace THEN <<"">> ELSE <<>>)

\* String.prototype.trim
Trim(text) ==
    LET solid == {i \in DOMAIN text : text[i] \notin WhiteSpace}
    IN IF solid = {} THEN <<>>
       ELSE SubSeq(text, CHOOSE i \in solid : \A j \in solid : i <= j,
                         CHOOSE i \in solid : \A j \in solid : i >= j)

\* words.join(' ')
JoinWords(words) ==
    [k \in 1..(IF words = <<>> THEN 0 ELSE 2 * Len(words) - 1) |->
        IF k % 2 = 1 THEN words[(k + 1) \div 2] ELSE SP]

\* ------------------------------------------------------------------ chunker
\* const CHUNK_SIZE_TOKENS = 512, OVERLAP_TOKENS = 100, MIN_CHUNK_TOKENS = 50
CHUNK_SIZE_TOKENS == 512
OVERLAP_TOKENS == 100
MIN_CHUNK_TOKENS == 50

\* The words that end in '.', and the number of characters of a word.
EndsSentence(w) == w \in {"e30.", "e40.", "e100."}

WordChars(w) == IF w = "Titulo" THEN 6 ELSE 4 * WordTokens(w)

\* cleanPageText: runs of three or more line breaks become two, runs of
\* spaces one, and the result is trimmed (the texts hold no \r and no control
\* characters).
cleanPageText(text) ==
    LET keep(i) == /\ ~(text[i] = NL /\ i > 2 /\ text[i - 1] = NL /\ text[i - 2] = NL)
                   /\ ~(text[i] = SP /\ i > 1 /\ text[i - 1] = SP)
        idx == SelectSeq([i \in DOMAIN text |-> i], keep)
    IN Trim([k \in DOMAIN idx |-> text[idx[k]]])

\* cleaned.split(/\n\n+/)
RECURSIVE SplitBlankLines(_)
SplitBlankLines(text) ==
    LET breaks == {i \in 1..(Len(text) - 1) : text[i] = NL /\ text[i + 1] = NL}
    IN IF breaks = {} THEN <<text>>
       ELSE LET i == CHOOSE b \in breaks : \A c \in breaks : b <= c
                after == {j \in (i + 1)..Len(text) : text[j] # NL}
                next == IF after = {} THEN Len(text) + 1
                        ELSE CHOOSE j \in after : \A k \in after : j <= k
            IN <<SubSeq(text, 1, i - 1)>> \o SplitBlankLines(SubSeq(text, next, Len(text)))

\* Step 1: the trimmed non-empty paragraphs of the cleaned non-empty pages,
\* each with the number of its page.
RECURSIVE ParagraphsWithMeta(_)
ParagraphsWithMeta(pages) ==
    IF pages = <<>> THEN <<>>
    ELSE LET page == Head(pages)
             paragraphs == SplitBlankLines(cleanPageText(page.text))
             trimmed == [i \in DOMAIN paragraphs |->
                            [text |-> Trim(paragraphs[i]), pageNumber |-> page.pageNumber]]
             nonEmpty(para) == para.text # <<>>
         IN SelectSeq(trimmed, nonEmpty) \o ParagraphsWithMeta(Tail(pages))

\* text.match(/[^.!?]+[.!?]+["']?|\s*\n/g) || [text]: every stretch up to and
\* with a word that ends a sentence; after the last such word no stretch
\* matches but the white space that ends in a line break.
Sentences(text) ==
    LET ends == {i \in DOMAIN text : EndsSentence(text[i])}
        lastEnd == IF ends = {} THEN 0 ELSE CHOOSE i \in ends : \A j \in ends : i >= j
        start(e) == IF \E d \in ends : d < e
                    THEN (CHOOSE d \in ends : d < e /\ \A c \in ends : c < e => c <= d) + 1
                    ELSE 1
        isEnd(i) == i \in ends
        white(a, b) == \A m \in a..b : text[m] \in WhiteSpace
        runEnd(i) == /\ i > lastEnd
                     /\ text[i] = NL
                     /\ \A j \in (i + 1)..Len(text) : white(i + 1, j) => text[j] # NL
        runStart(i) == CHOOSE a \in (lastEnd + 1)..i :
                          white(a, i) /\ \A b \in (lastEnd + 1)..i : white(b, i) => a <= b
        endIdx == SelectSeq([i \in DOMAIN text |-> i], isEnd)
        runIdx == SelectSeq([i \in DOMAIN text |-> i], runEnd)
        matches == [k \in DOMAIN endIdx |-> SubSeq(text, start(endIdx[k]), endIdx[k])]
                   \o [k \in DOMAIN runIdx |-> SubSeq(text, runStart(runIdx[k]), runIdx[k])]
    IN IF matches = <<>> THEN <<text>> ELSE matches

\* The loop over the sentences of an oversized paragraph: the raw chunks it
\* pushes and the sentBuffer it ends with.
RECURSIVE SplitOversized(_, _, _, _)
SplitOversized(sentences, sentBuffer, pageNumber, pushed) ==
    IF sentences = <<>> THEN [pushed |-> pushed, sentBuffer |-> sentBuffer]
    ELSE LET sentence == Head(sentences)
             combined == IF sentBuffer # <<>> THEN sentBuffer \o <<SP>> \o sentence
                         ELSE sentence
         IN IF countTokens(combined) > CHUNK_SIZE_TOKENS
            THEN SplitOversized(Tail(sentences), sentence, pageNumber,
                                IF sentBuffer # <<>>
                                THEN Append(pushed, [text |-> Trim(sentBuffer),
                                                     pageNumber |-> pageNumber])
                                ELSE pushed)
            ELSE SplitOversized(Tail(sentences), combined, pageNumber, pushed)

\* The tail as it would be if the words collected so far, not the candidate,
\* were measured: it takes one word more.
previousTailOneMore(text) ==
    LET words == SplitWhiteSpace(text)
        last(n) == SubSeq(words, Len(words) - n + 1, Len(words))
        fits(n) == \A m \in 0..(n - 1) : countTokens(JoinWords(last(m))) <= OVERLAP_TOKENS
        n == CHOOSE k \in 0..Len(words) : fits(k) /\ (k < Len(words) => ~fits(k + 1))
    IN JoinWords(last(n))

\* The tail of a chunk's text kept for the next chunk: the words taken from
\* the end backward while they have at most OVERLAP_TOKENS together, joined
\* by single spaces.
previousTail(text) ==
    LET words == SplitWhiteSpace(text)
        last(n) == SubSeq(words, Len(words) - n + 1, Len(words))
        fits(n) == \A m \in 1..n : countTokens(JoinWords(last(m))) <= OVERLAP_TOKENS
        n == CHOOSE k \in 0..Len(words) : fits(k) /\ (k < Len(words) => ~fits(k + 1))
    IN JoinWords(last(n))

\* function detectSectionTitle(paragraph): the trimmed first line when it has
\* fewer than 80 characters and does not end with a period, else null.
detectSectionTitle(paragraph) ==
    LET breaks == {i \in DOMAIN paragraph : paragraph[i] = NL}
        firstLine == Trim(IF breaks = {} THEN paragraph
                          ELSE SubSeq(paragraph, 1,
                                      (CHOOSE i \in breaks : \A j \in breaks : i <= j) - 1))
        chars[i \in 0..Len(firstLine)] ==
            IF i = 0 THEN 0
            ELSE chars[i - 1] + (IF firstLine[i] \in WhiteSpace THEN 1
                                 ELSE WordChars(firstLine[i]))
    IN IF /\ Len(firstLine) > 0
          /\ chars[Len(firstLine)] < 80
          /\ ~EndsSentence(firstLine[Len(firstLine)])
       THEN firstLine ELSE <<>>

\* Step 4: the chunks of validChunks: the tail of the previous chunk's text,
\* when there is one, a blank line and the text; the hash is that of the
\* content (here the content itself); a chunk without a section title takes
\* that of the chunk before it.
ApplyOverlap(validChunks) ==
    LET content(i) ==
          IF i > 1 /\ previousTail(validChunks[i - 1].text) # <<>>
          THEN previousTail(validChunks[i - 1].text) \o <<NL, NL>> \o validChunks[i].text
          ELSE validChunks[i].text
        titled(i) == {j \in 1..i : detectSectionTitle(validChunks[j].text) # <<>>}
        sectionTitle(i) ==
          IF titled(i) = {} THEN <<>>
          ELSE detectSectionTitle(validChunks[CHOOSE j \in titled(i) :
                                                 \A k \in titled(i) : j >= k].text)
    IN [i \in DOMAIN validChunks |->
          [content |-> content(i),
           chunkIndex |-> i - 1,
           pageNumber |-> validChunks[i].pageNumber,
           sectionTitle |-> sectionTitle(i),
           tokenCount |-> countTokens(content(i)),
           chunkHash |-> content(i)]]

\* chunkPages(pages) is called.  bufferFirst, and first in a raw chunk, is the
\* position in paragraphsWithMeta of the paragraph the text starts with; the
\* code keeps no such value.
CallChunkPages(pages) ==
    /\ chunker.pc = "idle"
    /\ chunker' = [pc |-> "paragraphs", pages |-> pages, paragraphsWithMeta |-> <<>>,
                   i |-> 1, buffer |-> <<>>, bufferPage |-> 1, bufferFirst |-> 0,
                   rawChunks |-> <<>>, validChunks |-> <<>>, chunks |-> <<>>]
    /\ UNCHANGED <<ingestVars, context, retrieval, request, search_logs>>

\* Step 1: the pages are cleaned and split into paragraphs.
SplitPages ==
    /\ chunker.pc = "paragraphs"
    /\ LET paragraphs == ParagraphsWithMeta(chunker.pages)
       IN chunker' = [chunker EXCEPT !.paragraphsWithMeta = paragraphs,
                                     !.pc = IF paragraphs = <<>> THEN "filter" ELSE "pack"]
    /\ UNCHANGED <<ingestVars, context, retrieval, request, search_logs>>

\* Step 2: one iteration of the loop over paragraphsWithMeta.
PackParagraph ==
    /\ chunker.pc = "pack"
    /\ LET text == chunker.paragraphsWithMeta[chunker.i].text
           pageNumber == chunker.paragraphsWithMeta[chunker.i].pageNumber
           buffer == chunker.buffer
           flushed == IF buffer # <<>>
                      THEN Append(chunker.rawChunks,
                                  [text |-> Trim(buffer), pageNumber |-> chunker.bufferPage,
                                   first |-> chunker.bufferFirst])
                      ELSE chunker.rawChunks
           split == SplitOversized(Sentences(text), <<>>, pageNumber, <<>>)
           pushed == [k \in DOMAIN split.pushed |->
                        [text |-> split.pushed[k].text,
                         pageNumber |-> split.pushed[k].pageNumber, first |-> chunker.i]]
           rest == IF Trim(split.sentBuffer) # <<>>
                   THEN <<[text |-> Trim(split.sentBuffer), pageNumber |-> pageNumber,
                           first |-> chunker.i]>>
                   ELSE <<>>
           next == IF chunker.i = Len(chunker.paragraphsWithMeta) THEN "filter" ELSE "pack"
       IN chunker' =
            IF countTokens(text) > CHUNK_SIZE_TOKENS
            THEN [chunker EXCEPT !.rawChunks = flushed \o pushed \o rest,
                                 !.buffer = <<>>, !.i = @ + 1, !.pc = next]
            ELSE IF countTokens(buffer \o <<NL, NL>> \o text) > CHUNK_SIZE_TOKENS
                 THEN [chunker EXCEPT !.rawChunks = flushed, !.buffer = text,
                                      !.bufferPage = pageNumber,
                                      !.bufferFirst = chunker.i, !.i = @ + 1, !.pc = next]
                 ELSE [chunker EXCEPT
                         !.buffer = IF buffer # <<>> THEN buffer \o <<NL, NL>> \o text
                                    ELSE text,
                         !.bufferFirst = IF buffer # <<>> THEN @ ELSE chunker.i,
                         !.i = @ + 1, !.pc = next]
    /\ UNCHANGED <<ingestVars, context, retrieval, request, search_logs>>

\* The last buffer is flushed and step 3 keeps the raw chunks of at least
\* MIN_CHUNK_TOKENS tokens.
FlushAndFilter ==
    /\ chunker.pc = "filter"
    /\ LET rawChunks == IF Trim(chunker.buffer) # <<>>
                        THEN Append(chunker.rawChunks,
                                    [text |-> Trim(chunker.buffer),
                                     pageNumber |-> chunker.bufferPage,
                                     first |-> chunker.bufferFirst])
                        ELSE chunker.rawChunks
           valid(c) == countTokens(c.text) >= MIN_CHUNK_TOKENS
       IN chunker' = [chunker EXCEPT !.rawChunks = rawChunks,
                                     !.validChunks = SelectSeq(rawChunks, valid),
                                     !.pc = "overlap"]
    /\ UNCHANGED <<ingestVars, context, retrieval, request, search_logs>>

\* Step 4 and the return.
OverlapAndReturn ==
    /\ chunker.pc = "overlap"
    /\ chunker' = [chunker EXCEPT !.chunks = ApplyOverlap(chunker.validChunks),
                                  !.pc = "returned"]
    /\ UNCHANGED <<ingestVars, context, retrieval, request, search_logs>>

\* The paragraphs of the documents chunkPages is called on: a sentence; a
\* heading line over a sentence; a paragraph too large, of two sentences and
\* an unfinished third; a paragraph whose first sentence alone is too large;
\* a sentence below the minimum; a paragraph that ends in a word longer than
\* the overlap.
ParagraphPool ==
    {<<"w30", SP, "e30.">>,
     <<"Titulo", NL, "w100", SP, "w100", SP, "e100.">>,
     <<"w100", SP, "w100", SP, "e100.", SP, "w100", SP, "w100", SP, "e100.", SP, "w30">>,
     <<"w100", SP, "w100", SP, "w100", SP, "w100", SP, "w100", SP, "e100.", SP,
       "w30", SP, "e30.">>,
     <<"e40.">>,
     <<"w100", SP, "w100", SP, "e100.", SP, "w120">>}

\* The paragraphs that follow another one on a page.
SecondParagraphs == {<<"w30", SP, "e30.">>, <<"e40.">>}

\* The texts of a page: nothing, one paragraph, or two paragraphs with blank
\* lines between them.
PageTexts ==
    {<<>>} \cup {para \o <<NL>> : para \in ParagraphPool}
           \cup {para \o <<NL, NL, NL>> \o next :
                     para \in ParagraphPool, next \in SecondParagraphs}

\* The page sequences of at most MaxPages pages, numbered from 1.
PageSequences ==
    UNION {{[i \in 1..n |-> [pageNumber |-> i, text |-> texts[i]]] :
               texts \in [1..n -> PageTexts]} : n \in 1..MaxPages}

\* chunkPages called on any page sequence.
NextChunker ==
    \/ \E pages \in PageSequences : CallChunkPages(pages)
    \/ SplitPages
    \/ PackParagraph
    \/ FlushAndFilter
    \/ OverlapAndReturn

SpecChunker == InitCrash /\ [][NextChunker]_vars

\* ---------------------------------------------------------- assembleContext
\* const MAX_CONTEXT_TOKENS = 3000
MAX_CONTEXT_TOKENS == 3000

\* page_number: number | null; null is written -1.
null == -1

\* Similarities are written in hundredths: 45 is 0.45.
\* a.localeCompare(b) < 0 for the slugs of the passages.
SlugBefore(a, b) == a = "livro-a" /\ b = "livro-b"

\* tokenOverlap as it would be without toLowerCase.
tokenOverlapCaseSensitive(a, b) ==
    LET set(t) == {SplitWhiteSpace(t)[i] : i \in DOMAIN SplitWhiteSpace(t)}
        intersection == Cardinality(set(a) \cap set(b))
        union == Cardinality(set(a) \cup set(b))
    IN IF union = 0 THEN <<0, 1>> ELSE <<intersection, union>>

\* function tokenOverlap(a, b): |A \cap B| / |A \cup B| over the lower-cased
\* word sets, as the pair <<numerator, denominator>>; <<0, 1>> for 0.
tokenOverlap(a, b) ==
    LET set(t) == {toLowerCase(SplitWhiteSpace(t)[i]) : i \in DOMAIN SplitWhiteSpace(t)}
        intersection == Cardinality(set(a) \cap set(b))
        union == Cardinality(set(a) \cup set(b))
    IN IF union = 0 THEN <<0, 1>> ELSE <<intersection, union>>

\* overlapScore > 0.8
IsDuplicate(existing, chunk) ==
    LET overlapScore == tokenOverlap(existing.content, chunk.content)
    IN overlapScore[1] * 10 > 8 * overlapScore[2]

\* The list as it would be were it not sorted.
ResultsAsGiven(results) == results

\* [...results].sort(comparator): book_slug by localeCompare, then
\* (page_number ?? 0) ascending; the sort is stable.
SortByBookAndPage(results) ==
    LET page(r) == IF r.page_number = null THEN 0 ELSE r.page_number
        less(x, y) == \/ SlugBefore(x.book_slug, y.book_slug)
                      \/ x.book_slug = y.book_slug /\ page(x) < page(y)
        before(i, j) == \/ less(results[i], results[j])
                        \/ ~less(results[j], results[i]) /\ i < j
        rank(i) == Cardinality({j \in DOMAIN results : before(j, i)})
    IN [k \in DOMAIN results |-> results[CHOOSE i \in DOMAIN results : rank(i) = k - 1]]

\* The loop over sorted: a chunk is pushed unless some chunk already pushed is a
\* duplicate of it.
RECURSIVE Deduplicate(_, _)
Deduplicate(sorted, deduplicated) ==
    IF sorted = <<>> THEN deduplicated
    ELSE LET chunk == Head(sorted)
             isDuplicate == \E k \in DOMAIN deduplicated : IsDuplicate(deduplicated[k], chunk)
         IN Deduplicate(Tail(sorted),
                        IF isDuplicate THEN deduplicated ELSE Append(deduplicated, chunk))

\* usedChunks.reduce((minIdx, c, idx) => c.similarity < usedChunks[minIdx].similarity
\* ? idx : minIdx, 0): the first index of the lowest similarity.
LowestIdx(usedChunks) ==
    CHOOSE i \in DOMAIN usedChunks :
        /\ \A j \in DOMAIN usedChunks : usedChunks[i].similarity <= usedChunks[j].similarity
        /\ \A j \in 1..(i - 1) : usedChunks[j].similarity > usedChunks[i].similarity

\* The test of line 42 as it would be were a passage of equal similarity
\* enough to evict.
EvictsOnEqualSimilarity(lowest, chunk) == lowest.similarity <= chunk.similarity

\* if (usedChunks[lowestIdx].similarity < chunk.similarity)
EvictsLowest(lowest, chunk) == lowest.similarity < chunk.similarity

\* usedChunks.splice(idx, 1)
Splice(seq, idx) == [k \in 1..(Len(seq) - 1) |-> IF k < idx THEN seq[k] ELSE seq[k + 1]]

\* The citations as they would be if every chunk overwrote the entry of its key.
CitationsLastWins(usedChunks) ==
    LET key(c) == <<c.book_slug, c.page_number>>
        first(i) == \A j \in 1..(i - 1) : key(usedChunks[j]) # key(usedChunks[i])
        firsts == SelectSeq([i \in DOMAIN usedChunks |-> i], first)
        last(k) == CHOOSE i \in DOMAIN usedChunks :
                      /\ key(usedChunks[i]) = key(usedChunks[firsts[k]])
                      /\ \A j \in (i + 1)..Len(usedChunks) :
                            key(usedChunks[j]) # key(usedChunks[i])
    IN [k \in DOMAIN firsts |->
          [book_title |-> usedChunks[last(k)].book_title,
           book_slug |-> usedChunks[last(k)].book_slug,
           page_number |-> usedChunks[last(k)].page_number,
           similarity |-> usedChunks[last(k)].similarity]]

\* The citations of usedChunks: Map insertion order, one entry per key
\* `${book_slug}::${page_number}`, set when the key is first seen.
Citations(usedChunks) ==
    LET key(c) == <<c.book_slug, c.page_number>>
        first(i) == \A j \in 1..(i - 1) : key(usedChunks[j]) # key(usedChunks[i])
        firsts == SelectSeq([i \in DOMAIN usedChunks |-> i], first)
    IN [k \in DOMAIN firsts |->
          [book_title |-> usedChunks[firsts[k]].book_title,
           book_slug |-> usedChunks[firsts[k]].book_slug,
           page_number |-> usedChunks[firsts[k]].page_number,
           similarity |-> usedChunks[firsts[k]].similarity]]

\* contextBlocks: one block `[Source: title, Page n]\ncontent` per used chunk,
\* 'N/A' (written null) for a missing page; the blocks are joined by a
\* separator line, so the text is given as the sequence of its blocks.
ContextBlocks(usedChunks) ==
    [k \in DOMAIN usedChunks |->
        [book_title |-> usedChunks[k].book_title,
         page |-> usedChunks[k].page_number,
         content |-> usedChunks[k].content]]

\* assembleContext(results) is called.
AssembleCalled(results) ==
    [pc |-> "sort", results |-> results, deduplicated |-> <<>>, i |-> 1,
     usedChunks |-> <<>>, totalTokens |-> 0, evicted |-> <<>>,
     skipped |-> <<>>, citations |-> <<>>, contextText |-> <<>>]

CallAssemble(results) ==
    /\ context.pc = "idle"
    /\ context' = AssembleCalled(results)
    /\ UNCHANGED <<ingestVars, chunker, retrieval, request, search_logs>>

\* Steps 1 and 2: sort, then deduplicate.
SortAndDeduplicate ==
    /\ context.pc = "sort"
    /\ LET deduplicated == Deduplicate(SortByBookAndPage(context.results), <<>>)
       IN context' = [context EXCEPT !.deduplicated = deduplicated,
                                     !.pc = IF deduplicated = <<>> THEN "build" ELSE "budget"]
    /\ UNCHANGED <<ingestVars, chunker, retrieval, request, search_logs>>

\* Step 3: one iteration of the loop over deduplicated.  evicted and skipped
\* record what the iteration removed from usedChunks or passed over.
BudgetStep ==
    /\ context.pc = "budget"
    /\ LET chunk == context.deduplicated[context.i]
           chunkTokens == countTokens(chunk.content)
           usedChunks == context.usedChunks
           over == context.totalTokens + chunkTokens > MAX_CONTEXT_TOKENS
           lowestIdx == LowestIdx(usedChunks)
           evicts == over /\ Len(usedChunks) > 0
                          /\ EvictsLowest(usedChunks[lowestIdx], chunk)
           skips == over /\ ~evicts
           kept == IF evicts THEN Splice(usedChunks, lowestIdx) ELSE usedChunks
           total == IF evicts
                    THEN context.totalTokens - countTokens(usedChunks[lowestIdx].content)
                    ELSE context.totalTokens
       IN context' = [context EXCEPT
                        !.usedChunks = IF skips THEN usedChunks ELSE Append(kept, chunk),
                        !.totalTokens = IF skips THEN total ELSE total + chunkTokens,
                        !.evicted = IF evicts
                                    THEN Append(@, [out |-> usedChunks[lowestIdx],
                                                    in |-> chunk, from |-> usedChunks])
                                    ELSE @,
                        !.skipped = IF skips THEN Append(@, chunk) ELSE @,
                        !.i = @ + 1,
                        !.pc = IF context.i = Len(context.deduplicated)
                               THEN "build" ELSE "budget"]
    /\ UNCHANGED <<ingestVars, chunker, retrieval, request, search_logs>>

\* Steps 4 and 5 and the return.
BuildContext ==
    /\ context.pc = "build"
    /\ context' = [context EXCEPT !.contextText = ContextBlocks(context.usedChunks),
                                  !.citations = Citations(context.usedChunks),
                                  !.pc = "returned"]
    /\ UNCHANGED <<ingestVars, chunker, retrieval, request, search_logs>>

\* The passages the calls of assembleContext are made on.
Passage(id, slug, page, content, similarity) ==
    [id |-> id, book_slug |-> slug, book_title |-> slug, page_number |-> page,
     content |-> content, similarity |-> similarity]

Passages ==
    {Passage(1, "livro-a", 1, <<"a", SP, "b", SP, "c", SP, "d", SP, "e">>, 50),
     Passage(2, "livro-a", 1, <<"a", SP, "b", NL, "c", SP, "d">>, 60),
     Passage(3, "livro-a", 2, <<"A", SP, "b", SP, "c", SP, "d", SP, "e">>, 90),
     Passage(4, "livro-a", 2, <<"f">>, 90),
     Passage(5, "livro-b", null, <<"g">>, 70),
     Passage(6, "livro-b", 1, <<"h">>, 45),
     Passage(7, "livro-b", 1, <<"k">>, 45)}

\* The lists of at most MaxResults passages with different ids.
ResultLists ==
    UNION {{r \in [1..n -> Passages] : \A i, j \in 1..n : r[i].id = r[j].id => i = j}
              : n \in 0..MaxResults}

\* assembleContext called on any list of passages.
NextAssemble ==
    \/ \E results \in ResultLists : CallAssemble(results)
    \/ SortAndDeduplicate
    \/ BudgetStep
    \/ BuildContext

SpecAssemble == InitCrash /\ [][NextAssemble]_vars

\* ----------------------------------------------------------------- retrieve
\* const DEFAULT_TOP_K = 5, MAX_TOP_K = 10
DEFAULT_TOP_K == 5
MAX_TOP_K == 10
\* const DEFAULT_SIMILARITY_THRESHOLD = 0.4, KEYWORD_MATCH_SIMILARITY = 0.45
\* (in hundredths)
DEFAULT_SIMILARITY_THRESHOLD == 40
KEYWORD_MATCH_SIMILARITY == 45

\* The words of PT_STOP_WORDS that the queries use.
PT_STOP_WORDS == {"que", "mais", "sobre"}

\* w.toLowerCase().replace(/[^\wÀ-ɏ]/g, '') on a word of a query.
KeywordForm(w) ==
    CASE w = "Capital?" -> "capital"
      [] w = "Renda" -> "renda"
      [] w = "O" -> "o"
      [] OTHER -> w

\* w.length of a word in keyword form.
WordLength(w) ==
    CASE w = "" -> 0
      [] w = "o" -> 1
      [] w = "que" -> 3
      [] w = "mais" -> 4
      [] OTHER -> 5

\* [...new Set(list)]: the list without the later occurrences of its elements.
Distinct(list) ==
    LET first(i) == \A j \in 1..(i - 1) : list[j] # list[i]
        idx == SelectSeq([i \in DOMAIN list |-> i], first)
    IN [k \in DOMAIN idx |-> list[idx[k]]]

\* function extractKeywordTerms(query): the distinct words of 4 characters or
\* more that are no stop words, at most 6 of them.
extractKeywordTerms(query) ==
    LET pieces == SplitWhiteSpace(query)
        forms == [i \in DOMAIN pieces |-> KeywordForm(pieces[i])]
        keep(w) == WordLength(w) >= 4 /\ w \notin PT_STOP_WORDS
        terms == Distinct(SelectSeq(forms, keep))
    IN SubSeq(terms, 1, Min2(6, Len(terms)))

\* content ILIKE %term%: the term occurs in the content, whatever the case.
Ilike(content, term) ==
    LET occursIn(w) == \/ KeywordForm(w) = term
                       \/ term = "capital" /\ w = "capitalismo"
    IN \E i \in DOMAIN content : content[i] \notin WhiteSpace /\ occursIn(content[i])

\* The library the calls of retrieve run against: the tables after slug
\* livro-a was ingested in two versions, livro-b in one, and a first ingestion
\* of livro-c was interrupted before its first batch.
LibraryBooks ==
    <<[slug |-> "livro-a", title |-> "Livro A", pdf_hash |-> "hOld", total_chunks |-> 1,
       is_active |-> FALSE],
      [slug |-> "livro-a", title |-> "Livro A", pdf_hash |-> "hNew", total_chunks |-> 2,
       is_active |-> TRUE],
      [slug |-> "livro-b", title |-> "Livro B", pdf_hash |-> "hB", total_chunks |-> 1,
       is_active |-> TRUE],
      [slug |-> "livro-c", title |-> "Livro C", pdf_hash |-> "hC", total_chunks |-> 1,
       is_active |-> FALSE]>>

LibraryChunk(id, book, index, content, page) ==
    [id |-> id, book_id |-> book, chunk_index |-> index, chunk_hash |-> id,
     content |-> content, page_number |-> page, section_title |-> null]

LibraryChunks ==
    <<LibraryChunk(1, 1, 0, <<"renda", SP, "capital">>, 1),
      LibraryChunk(2, 2, 0, <<"Renda", SP, "basica">>, 1),
      LibraryChunk(3, 2, 1, <<"capitalismo">>, 2),
      LibraryChunk(4, 3, 0, <<"mais", SP, "agua">>, null)>>

\* The result of embedQuery, given by what match_chunks computes from it: the
\* similarity 1 - (c.embedding <=> query_embedding) of every stored chunk c.
SimilarityValues == {30, 42, 90}
QueryEmbeddings == [DOMAIN LibraryChunks -> SimilarityValues]

\* The options retrieve is called with; a missing topK or similarityThreshold
\* is null, a missing bookSlugs the empty list.
Queries == {<<"Renda">>, <<"que", SP, "mais">>, <<"O", SP, "Capital?">>}
BookSlugLists == {<<>>, <<"livro-a">>, <<"nao-existe", "livro-c">>, <<"livro-b", "livro-a">>}
RetrievalOptions ==
    [query : Queries, bookSlugs : BookSlugLists, topK : {null, 1},
     similarityThreshold : {null, 30}]

\* let bookIds: string[] | null: no filter, or the ids the slugs resolved to.
NoBookIds == [isNull |-> TRUE, ids |-> {}]
BookIds(ids) == [isNull |-> FALSE, ids |-> ids]

\* The sequences of n different elements of S.
Orderings(S, n) ==
    {r \in [1..n -> S] : \A i, j \in 1..n : r[i] = r[j] => i = j}

\* return query of match_chunks: the chunks of active books, of the books of
\* book_ids when given, at or above the threshold, nearest first, at most
\* match_count of them.  Rows at the same distance come in any order.
match_chunks(embedding, match_count, book_ids, threshold) ==
    LET rows == {c \in DOMAIN chunks :
                    /\ books[chunks[c].book_id].is_active
                    /\ (book_ids.isNull \/ chunks[c].book_id \in book_ids.ids)
                    /\ embedding[c] >= threshold}
        n == Min2(match_count, Cardinality(rows))
    IN {r \in Orderings(rows, n) :
          /\ \A i \in 1..(n - 1) : embedding[r[i]] >= embedding[r[i + 1]]
          /\ \A c \in rows \ {r[i] : i \in 1..n} :
                \A i \in 1..n : embedding[c] <= embedding[r[i]]}

\* chunks joined with books!inner, .or(orFilter).limit(safeTopK), .in(book_id)
\* when a filter is given: any safeTopK matching rows in any order.
KeywordRows(terms, limit, book_ids) ==
    LET rows == {c \in DOMAIN chunks :
                    /\ \E t \in DOMAIN terms : Ilike(chunks[c].content, terms[t])
                    /\ (book_ids.isNull \/ chunks[c].book_id \in book_ids.ids)}
    IN Orderings(rows, Min2(limit, Cardinality(rows)))

\* The merge as it would be with the keyword results put first.
MergeResultsKeywordFirst(vectorData, keywordData, embedding) ==
    LET result(c, similarity) ==
          [id |-> chunks[c].id, book_id |-> chunks[c].book_id,
           book_slug |-> books[chunks[c].book_id].slug,
           book_title |-> books[chunks[c].book_id].title,
           content |-> chunks[c].content, page_number |-> chunks[c].page_number,
           similarity |-> similarity]
        notVector(c) == \A i \in DOMAIN vectorData : vectorData[i] # c
        keywordOnly == SelectSeq(keywordData, notVector)
    IN [i \in DOMAIN keywordOnly |-> result(keywordOnly[i], KEYWORD_MATCH_SIMILARITY)]
       \o [i \in DOMAIN vectorData |-> result(vectorData[i], embedding[vectorData[i]])]

\* The merge as it would be without the filter on the vector ids.
MergeResultsUnfiltered(vectorData, keywordData, embedding) ==
    LET result(c, similarity) ==
          [id |-> chunks[c].id, book_id |-> chunks[c].book_id,
           book_slug |-> books[chunks[c].book_id].slug,
           book_title |-> books[chunks[c].book_id].title,
           content |-> chunks[c].content, page_number |-> chunks[c].page_number,
           similarity |-> similarity]
    IN [i \in DOMAIN vectorData |-> result(vectorData[i], embedding[vectorData[i]])]
       \o [i \in DOMAIN keywordData |-> result(keywordData[i], KEYWORD_MATCH_SIMILARITY)]

\* Steps 4 to 6: vector rows mapped with their similarity, keyword rows not
\* among them mapped with KEYWORD_MATCH_SIMILARITY, vector results first.
MergeResults(vectorData, keywordData, embedding) ==
    LET vectorResults ==
          [i \in DOMAIN vectorData |->
              [id |-> chunks[vectorData[i]].id,
               book_id |-> chunks[vectorData[i]].book_id,
               book_slug |-> books[chunks[vectorData[i]].book_id].slug,
               book_title |-> books[chunks[vectorData[i]].book_id].title,
               content |-> chunks[vectorData[i]].content,
               page_number |-> chunks[vectorData[i]].page_number,
               similarity |-> embedding[vectorData[i]]]]
        vectorIds == {vectorResults[i].id : i \in DOMAIN vectorResults}
        notVector(c) == chunks[c].id \notin vectorIds
        keywordOnly == SelectSeq(keywordData, notVector)
        keywordResults ==
          [i \in DOMAIN keywordOnly |->
              [id |-> chunks[keywordOnly[i]].id,
               book_id |-> chunks[keywordOnly[i]].book_id,
               book_slug |-> books[chunks[keywordOnly[i]].book_id].slug,
               book_title |-> books[chunks[keywordOnly[i]].book_id].title,
               content |-> chunks[keywordOnly[i]].content,
               page_number |-> chunks[keywordOnly[i]].page_number,
               similarity |-> KEYWORD_MATCH_SIMILARITY]]
    IN vectorResults \o keywordResults

\* Math.min(topK, MAX_TOP_K) with topK = DEFAULT_TOP_K when missing.
safeTopK(options) ==
    Min2(IF options.topK = null THEN DEFAULT_TOP_K ELSE options.topK, MAX_TOP_K)

\* The searches as they would be issued were the vector search awaited before
\* the keyword search is built: the vector search alone is in flight.
SearchesIssuedInTurn(call, bookIds) ==
    [call EXCEPT !.pc = "search",
                 !.bookIds = bookIds,
                 !.retrievalStart = call.now,
                 !.pending = {"match_chunks"},
                 !.issued = Append(@, "match_chunks")]

\* The state of the call once both searches are issued (line 91): the vector
\* search always, the keyword search when the query has keyword terms; now is
\* Date.now(), which every completed call advances.
SearchesIssued(call, bookIds) ==
    LET keyword == Len(extractKeywordTerms(call.options.query)) > 0
    IN [call EXCEPT !.pc = "search",
                    !.bookIds = bookIds,
                    !.retrievalStart = call.now,
                    !.pending = IF keyword THEN {"match_chunks", "keyword"}
                                ELSE {"match_chunks"},
                    !.issued = @ \o (IF keyword THEN <<"match_chunks", "keyword">>
                                     ELSE <<"match_chunks">>)]

\* retrieve(options) is called: embedQuery is issued.
RetrieveCalled(options) ==
    [pc |-> "embedQuery", options |-> options, now |-> 0,
     embedding |-> <<>>, embedLatency |-> 0, embeddingTokens |-> 0, bookIds |-> NoBookIds,
     retrievalStart |-> 0, pending |-> {}, issued |-> <<"embedQuery">>,
     vectorResponse |-> [data |-> <<>>, error |-> FALSE],
     keywordResponse |-> [data |-> <<>>, error |-> FALSE],
     results |-> <<>>, latency |-> [embedding |-> 0, retrieval |-> 0],
     error |-> ""]

CallRetrieve(options) ==
    /\ retrieval.pc = "idle"
    /\ retrieval' = RetrieveCalled(options)
    /\ UNCHANGED <<ingestVars, chunker, context, request, search_logs>>

\* embedQuery settles: a rejection leaves retrieve; otherwise the slugs are
\* resolved when a filter is given, else the searches are issued.
EmbedQueryDone(ok, embedding) ==
    /\ retrieval.pc = "embedQuery"
    /\ LET call == [retrieval EXCEPT !.now = @ + 1, !.embedLatency = 1,
                                     !.embedding = embedding,
                                     !.embeddingTokens =
                                        countTokens(retrieval.options.query)]
       IN retrieval' =
            IF ~ok THEN [retrieval EXCEPT !.now = @ + 1, !.pc = "threw",
                                          !.error = "embedQuery"]
            ELSE IF Len(retrieval.options.bookSlugs) > 0
                 THEN [call EXCEPT !.pc = "resolve", !.issued = Append(@, "books")]
                 ELSE SearchesIssued(call, NoBookIds)
    /\ UNCHANGED <<ingestVars, chunker, context, request, search_logs>>

\* The short-circuit as it would be without the test of bookIds.length.
NoneResolvedIgnored(bookIds) == FALSE

\* if (bookIds.length === 0)
NoneResolved(bookIds) == bookIds = {}

\* select id from books where slug in bookSlugs and is_active = true settles.
ResolveDone(ok) ==
    /\ retrieval.pc = "resolve"
    /\ LET slugs == {retrieval.options.bookSlugs[i] : i \in DOMAIN retrieval.options.bookSlugs}
           bookIds == {b \in DOMAIN books : books[b].slug \in slugs /\ books[b].is_active}
           call == [retrieval EXCEPT !.now = @ + 1]
       IN retrieval' =
            IF ~ok THEN [call EXCEPT !.pc = "threw", !.error = "Failed to resolve book slugs"]
            ELSE IF NoneResolved(bookIds)
                 THEN [call EXCEPT !.pc = "returned", !.bookIds = BookIds({}),
                                   !.results = <<>>,
                                   !.latency = [embedding |-> call.embedLatency,
                                                retrieval |-> 0]]
                 ELSE SearchesIssued(call, BookIds(bookIds))
    /\ UNCHANGED <<ingestVars, chunker, context, request, search_logs>>

\* The rpc match_chunks settles.
VectorSearchDone(ok) ==
    /\ retrieval.pc = "search"
    /\ "match_chunks" \in retrieval.pending
    /\ \E data \in match_chunks(retrieval.embedding, safeTopK(retrieval.options),
                                retrieval.bookIds,
                                IF retrieval.options.similarityThreshold = null
                                THEN DEFAULT_SIMILARITY_THRESHOLD
                                ELSE retrieval.options.similarityThreshold) :
          retrieval' = [retrieval EXCEPT
                          !.now = @ + 1,
                          !.pending = @ \ {"match_chunks"},
                          !.vectorResponse = IF ok THEN [data |-> data, error |-> FALSE]
                                             ELSE [data |-> <<>>, error |-> TRUE]]
    /\ UNCHANGED <<ingestVars, chunker, context, request, search_logs>>

\* The keyword select settles.
KeywordSearchDone(ok) ==
    /\ retrieval.pc = "search"
    /\ "keyword" \in retrieval.pending
    /\ \E data \in KeywordRows(extractKeywordTerms(retrieval.options.query),
                               safeTopK(retrieval.options), retrieval.bookIds) :
          retrieval' = [retrieval EXCEPT
                          !.now = @ + 1,
                          !.pending = @ \ {"keyword"},
                          !.keywordResponse = IF ok THEN [data |-> data, error |-> FALSE]
                                              ELSE [data |-> <<>>, error |-> TRUE]]
    /\ UNCHANGED <<ingestVars, chunker, context, request, search_logs>>

\* Promise.all has settled: the vector error is thrown, else the results are
\* mapped, merged and returned.
MergeAndReturn ==
    /\ retrieval.pc = "search"
    /\ retrieval.pending = {}
    /\ retrieval' =
         IF retrieval.vectorResponse.error
         THEN [retrieval EXCEPT !.pc = "threw", !.error = "Vector search failed"]
         ELSE [retrieval EXCEPT
                 !.pc = "returned",
                 !.results = MergeResults(retrieval.vectorResponse.data,
                                          retrieval.keywordResponse.data,
                                          retrieval.embedding),
                 !.latency = [embedding |-> retrieval.embedLatency,
                              retrieval |-> retrieval.now - retrieval.retrievalStart]]
    /\ UNCHANGED <<ingestVars, chunker, context, request, search_logs>>

\* The library, nothing called yet.
InitRetrieve ==
    /\ books = LibraryBooks
    /\ chunks = LibraryChunks
    /\ ingestion_runs = <<>>
    /\ pc = [p \in Procs |-> "idle"]
    /\ loc = [p \in Procs |-> InitLoc]
    /\ embedded = <<>>
    /\ invocations = 0
    /\ faults = 0
    /\ finished = {}
    /\ NoCalls

\* retrieve called with any options; every call it makes may fail.
NextRetrieve ==
    \/ \E options \in RetrievalOptions : CallRetrieve(options)
    \/ \E ok \in BOOLEAN, embedding \in QueryEmbeddings : EmbedQueryDone(ok, embedding)
    \/ \E ok \in BOOLEAN : ResolveDone(ok)
    \/ \E ok \in BOOLEAN : VectorSearchDone(ok)
    \/ \E ok \in BOOLEAN : KeywordSearchDone(ok)
    \/ MergeAndReturn

SpecRetrieve == InitRetrieve /\ [][NextRetrieve]_vars

\* ----------------------------------------------------------------- handlers
\* POST /api/search and POST /api/chat.  One request is followed from its body
\* to its response; the calls of retrieve and assembleContext it makes run as
\* the steps above.  Of the latencies a response reports, those retrieve
\* returns are kept; the handler's own clock readings are left out.

\* The bodies of a request: not JSON, or a JSON object whose query is missing,
\* not a string, or a string.  A missing book_slugs is the empty list, a
\* missing top_k or similarity_threshold is null.
QueryField(kind, text) == [kind |-> kind, text |-> text]

RequestBodies ==
    {[json |-> FALSE, query |-> QueryField("missing", <<>>), book_slugs |-> <<>>,
      top_k |-> null, similarity_threshold |-> null]}
    \cup [json : {TRUE},
          query : {QueryField("missing", <<>>), QueryField("number", <<>>),
                   QueryField("string", <<>>), QueryField("string", <<SP>>)},
          book_slugs : {<<>>}, top_k : {null}, similarity_threshold : {null}]
    \cup [json : {TRUE},
          query : {QueryField("string", <<"Renda", SP>>),
                   QueryField("string", <<"que", SP, "mais">>)},
          book_slugs : {<<>>, <<"livro-a">>, <<"nao-existe", "livro-c">>},
          top_k : {null, 1}, similarity_threshold : {null, 30}]

\* !query || typeof query !== 'string' || query.trim().length === 0
QueryRejected(body) ==
    \/ body.query.kind # "string"
    \/ body.query.text = <<>>
    \/ Trim(body.query.text) = <<>>

\* A response: its status and its body, which for /api/chat past validation
\* is the stream of events sent before the stream was closed.
Response(status, body) == [status |-> status, body |-> body]
ErrorBody(message) == [error |-> message]

\* The state of a request: the promise logSearch returned is "none" before the
\* call, then "pending", then what it settled to; logOutcome is what the
\* insert did; closes counts the calls of controller.close().
RequestReceived(route, body) ==
    [pc |-> "retrieve", route |-> route, body |-> body, status |-> 0,
     responseBody |-> <<>>, events |-> <<>>, fullAnswer |-> <<>>,
     answerTokens |-> 0, promptTokens |-> 0, is_fallback |-> FALSE,
     logPromise |-> "none", logOutcome |-> "none", logEntry |-> <<>>, closes |-> 0]

Responded(req, status, body) ==
    [req EXCEPT !.pc = "responded", !.status = status, !.responseBody = body]

\* POST of /api/search is entered: a body that is not JSON or has no usable
\* query is answered 400 at once; otherwise retrieve is called.
ReceiveSearch(body) ==
    /\ request.pc = "idle"
    /\ retrieval.pc = "idle"
    /\ LET req == RequestReceived("search", body)
       IN IF ~body.json
          THEN /\ request' = Responded(req, 400, ErrorBody("Invalid JSON body"))
               /\ UNCHANGED retrieval
          ELSE IF QueryRejected(body)
          THEN /\ request' = Responded(req, 400,
                     ErrorBody("query is required and must be a non-empty string"))
               /\ UNCHANGED retrieval
          ELSE /\ request' = req
               /\ retrieval' = RetrieveCalled(
                     [query |-> Trim(body.query.text), bookSlugs |-> body.book_slugs,
                      topK |-> body.top_k,
                      similarityThreshold |-> body.similarity_threshold])
    /\ UNCHANGED <<ingestVars, chunker, context, search_logs>>

\* POST of /api/chat is entered: the same answers 400; otherwise the streaming
\* response is returned (status 200) and its start callback calls retrieve
\* with top_k ?? 5 and no similarityThreshold.
ReceiveChat(body) ==
    /\ request.pc = "idle"
    /\ retrieval.pc = "idle"
    /\ body.similarity_threshold = null
    /\ LET req == RequestReceived("chat", body)
       IN IF ~body.json
          THEN /\ request' = Responded(req, 400, ErrorBody("Invalid JSON body"))
               /\ UNCHANGED retrieval
          ELSE IF QueryRejected(body)
          THEN /\ request' = Responded(req, 400,
                     ErrorBody("query is required and must be a non-empty string"))
               /\ UNCHANGED retrieval
          ELSE /\ request' = [req EXCEPT !.status = 200]
               /\ retrieval' = RetrieveCalled(
                     [query |-> Trim(body.query.text), bookSlugs |-> body.book_slugs,
                      topK |-> IF body.top_k = null THEN 5 ELSE body.top_k,
                      similarityThreshold |-> null])
    /\ UNCHANGED <<ingestVars, chunker, context, search_logs>>

\* results[0]?.similarity ?? null
TopSimilarity(results) == IF results = <<>> THEN null ELSE results[1].similarity

\* What the caller of logSearch gets once the insert has settled as outcome
\* ("ok", "error" for an error returned, "throws"), if the catch block let
\* the exception through.
logSearchRethrows(outcome) == IF outcome = "throws" THEN "rejected" ELSE "resolved"

\* logSearch: the promise it returns resolves whatever the insert did; an
\* exception is caught and an error the insert returns is not looked at.
logSearch(outcome) == "resolved"

\* /api/search, retrieve has settled: an exception is answered 500 with its
\* message; otherwise logSearch is called, not awaited, and the results are
\* answered.
SearchRetrieved ==
    /\ request.pc = "retrieve"
    /\ request.route = "search"
    /\ retrieval.pc \in {"returned", "threw"}
    /\ request' =
         IF retrieval.pc = "threw"
         THEN Responded(request, 500, ErrorBody(retrieval.error))
         ELSE [Responded(request, 200,
                   [results |-> retrieval.results,
                    query_embedding_tokens |-> retrieval.embeddingTokens,
                    latency_ms |-> retrieval.latency])
               EXCEPT !.logPromise = "pending",
                      !.logEntry =
                         [query_text |-> Trim(request.body.query.text),
                          book_ids_filter |-> request.body.book_slugs,
                          results_count |-> Len(retrieval.results),
                          top_similarity |-> TopSimilarity(retrieval.results),
                          latency_embedding_ms |-> retrieval.latency.embedding,
                          latency_retrieval_ms |-> retrieval.latency.retrieval]]
    /\ UNCHANGED <<ingestVars, chunker, context, retrieval, search_logs>>

\* The insert into search_logs settles and with it the promise of logSearch.
\* Only a successful insert stores the entry.  A rejection nobody handles may
\* end the process (fatal) while the stream of the request is still open.
LogWriteSettles(outcome, fatal) ==
    /\ request.pc # "idle"
    /\ request.logPromise = "pending"
    /\ search_logs' = IF outcome = "ok" THEN Append(search_logs, request.logEntry)
                      ELSE search_logs
    /\ request' =
         IF logSearch(outcome) = "rejected" /\ fatal /\ request.pc # "responded"
         THEN [request EXCEPT !.logPromise = "rejected", !.logOutcome = outcome,
                              !.pc = "aborted"]
         ELSE [request EXCEPT !.logPromise = logSearch(outcome),
                              !.logOutcome = outcome]
    /\ UNCHANGED <<ingestVars, chunker, context, retrieval>>

\* send(controller, obj) and controller.close()
Send(req, event) == [req EXCEPT !.events = Append(@, event)]
Close(req) == [Responded(req, req.status, req.events) EXCEPT !.closes = @ + 1]

\* catch (err) of the stream: an error event, then the stream is closed.
SendErrorAndClose(req, message) ==
    Close(Send(req, [type |-> "error", message |-> message]))

\* The fallback test as it would be with a bar at the synthetic similarity of
\* keyword matches instead of above it.
TakesFallbackBelowKeywordScore(results) ==
    LET bestSimilarity == IF results = <<>> THEN 0 ELSE results[1].similarity
    IN Len(results) = 0 \/ bestSimilarity < KEYWORD_MATCH_SIMILARITY

\* const bestSimilarity = results[0]?.similarity ?? 0
\* if (results.length === 0 || bestSimilarity < 0.5)
TakesFallback(results) ==
    LET bestSimilarity == IF results = <<>> THEN 0 ELSE results[1].similarity
    IN Len(results) = 0 \/ bestSimilarity < 50

\* /api/chat, retrieve has settled.  No passage, or a first passage below 0.5,
\* takes the fallback path, which reads the titles of the active books;
\* otherwise assembleContext is called on the results.
ChatRetrieved ==
    /\ request.pc = "retrieve"
    /\ request.route = "chat"
    /\ retrieval.pc \in {"returned", "threw"}
    /\ context.pc = "idle"
    /\ LET results == retrieval.results
       IN IF retrieval.pc = "threw"
          THEN /\ request' = SendErrorAndClose(request, retrieval.error)
               /\ UNCHANGED context
          ELSE IF TakesFallback(results)
          THEN /\ request' = [request EXCEPT !.pc = "fallbackBooks", !.is_fallback = TRUE]
               /\ UNCHANGED context
          ELSE /\ request' = [request EXCEPT !.pc = "assemble"]
               /\ context' = AssembleCalled(results)
    /\ UNCHANGED <<ingestVars, chunker, retrieval, search_logs>>

\* Fallback path: the select of the titles has settled (an error it returns
\* leaves the list empty); the meta event is sent and the completion asked for.
FallbackBooksDone(ok) ==
    /\ request.pc = "fallbackBooks"
    /\ request' = [Send(request, [type |-> "meta", citations |-> <<>>,
                                  is_fallback |-> TRUE, context_chunks_used |-> 0])
                   EXCEPT !.pc = "llmCreate"]
    /\ UNCHANGED <<ingestVars, chunker, context, retrieval, search_logs>>

\* Normal path: assembleContext has returned; the meta event is sent and the
\* completion asked for.
ChatAssembled ==
    /\ request.pc = "assemble"
    /\ context.pc = "returned"
    /\ request' = [Send(request, [type |-> "meta", citations |-> context.citations,
                                  is_fallback |-> FALSE,
                                  context_chunks_used |-> Len(context.usedChunks)])
                   EXCEPT !.pc = "llmCreate"]
    /\ UNCHANGED <<ingestVars, chunker, context, retrieval, search_logs>>

\* openai.chat.completions.create settles.
LlmCreated(ok) ==
    /\ request.pc = "llmCreate"
    /\ request' = IF ok THEN [request EXCEPT !.pc = "stream"]
                  ELSE SendErrorAndClose(request, "completion failed")
    /\ UNCHANGED <<ingestVars, chunker, context, retrieval, search_logs>>

\* One iteration of for await (const chunk of completion): a piece with text
\* is sent as a chunk event, a piece without text is not; the stream may fail.
LlmChunk(text, ok) ==
    /\ request.pc = "stream"
    /\ Len(request.fullAnswer) < MaxAnswerChunks
    /\ request' =
         IF ~ok THEN SendErrorAndClose(request, "stream failed")
         ELSE IF text = "" THEN request
         ELSE [Send(request, [type |-> "chunk", text |-> text])
               EXCEPT !.fullAnswer = Append(@, text)]
    /\ UNCHANGED <<ingestVars, chunker, context, retrieval, search_logs>>

\* The completion has ended, usage being what its last piece reported: the
\* done event is sent and logSearch called, not awaited.  The fallback path
\* closes the stream; the normal path asks for suggestions first.
LlmStreamEnds(usage) ==
    /\ request.pc = "stream"
    /\ LET done == [type |-> "done", latency_ms |-> retrieval.latency,
                    tokens |-> [embedding |-> retrieval.embeddingTokens,
                                llm_input |-> usage.prompt_tokens,
                                llm_output |-> usage.completion_tokens]]
           entry == [query_text |-> Trim(request.body.query.text),
                     book_ids_filter |-> request.body.book_slugs,
                     results_count |-> IF request.is_fallback THEN 0
                                       ELSE Len(context.usedChunks),
                     top_similarity |-> IF request.is_fallback THEN null
                                        ELSE TopSimilarity(retrieval.results),
                     latency_embedding_ms |-> retrieval.latency.embedding,
                     latency_retrieval_ms |-> retrieval.latency.retrieval,
                     answer_tokens |-> usage.completion_tokens]
           logged == [Send(request, done)
                      EXCEPT !.answerTokens = usage.completion_tokens,
                             !.promptTokens = usage.prompt_tokens,
                             !.logPromise = "pending", !.logEntry = entry]
       IN request' = IF request.is_fallback THEN Close(logged)
                     ELSE [logged EXCEPT !.pc = "suggest"]
    /\ UNCHANGED <<ingestVars, chunker, context, retrieval, search_logs>>

\* sendSuggestions as it would be without its try/catch: a failed completion
\* reaches the catch block of the stream.
SuggestionsDoneUncaught(outcome) ==
    /\ request.pc = "suggest"
    /\ request' =
         IF outcome = "questions"
         THEN Close(Send(request, [type |-> "suggestions",
                                   questions |-> <<"E depois?">>]))
         ELSE IF outcome = "throws"
         THEN SendErrorAndClose(request, "suggestions failed")
         ELSE Close(request)
    /\ UNCHANGED <<ingestVars, chunker, context, retrieval, search_logs>>

\* sendSuggestions: the completion failed, or gave no usable question, or
\* gave some, which are sent; then the stream is closed.
SuggestionsDone(outcome) ==
    /\ request.pc = "suggest"
    /\ request' =
         IF outcome = "questions"
         THEN Close(Send(request, [type |-> "suggestions",
                                   questions |-> <<"E depois?">>]))
         ELSE Close(request)
    /\ UNCHANGED <<ingestVars, chunker, context, retrieval, search_logs>>

\* The usage a completion reports: none (the counters stay 0) or some.
Usages == {[prompt_tokens |-> 0, completion_tokens |-> 0],
           [prompt_tokens |-> 7, completion_tokens |-> 3]}

\* One request to either route, with every outcome of the calls it makes.
NextHandlers ==
    \/ \E body \in RequestBodies : ReceiveSearch(body)
    \/ \E body \in RequestBodies : ReceiveChat(body)
    \/ \E ok \in BOOLEAN, embedding \in QueryEmbeddings : EmbedQueryDone(ok, embedding)
    \/ \E ok \in BOOLEAN : ResolveDone(ok)
    \/ \E ok \in BOOLEAN : VectorSearchDone(ok)
    \/ \E ok \in BOOLEAN : KeywordSearchDone(ok)
    \/ MergeAndReturn
    \/ SearchRetrieved
    \/ ChatRetrieved
    \/ \E ok \in BOOLEAN : FallbackBooksDone(ok)
    \/ SortAndDeduplicate
    \/ BudgetStep
    \/ BuildContext
    \/ ChatAssembled
    \/ \E ok \in BOOLEAN : LlmCreated(ok)
    \/ \E text \in {"", "Sim."}, ok \in BOOLEAN : LlmChunk(text, ok)
    \/ \E usage \in Usages : LlmStreamEnds(usage)
    \/ \E outcome \in {"throws", "none", "questions"} : SuggestionsDone(outcome)
    \/ \E outcome \in {"ok", "error", "throws"}, fatal \in BOOLEAN :
          LogWriteSettles(outcome, fatal)

SpecHandlers == InitRetrieve /\ [][NextHandlers]_vars

\* ------------------------------------------------------------------ claims
\* The distinct chunkHash values of the document with this pdfHash.
DocHashes(h) == {DocChunks(h)[i].chunkHash : i \in 1..NumChunks(h)}

\* C1: once an invocation of (slug, pdfHash) has returned from main(), no step
\* of a later invocation of the same (slug, pdfHash) changes the chunks table:
\* it inserts no row and the stored chunkHash set stays as it was.
C1_IdempotentIngestion ==
    [][\A p \in Procs : (Running(p) /\ loc[p].rerun) => chunks' = chunks]_vars

\* C1 witness: a second invocation of the long document has run to its end and
\* skipped every chunk.
C1_Witness ==
    \E p \in Procs :
        /\ pc[p] = "done"
        /\ loc[p].rerun
        /\ loc[p].pdfHash = "hLong"
        /\ loc[p].skipped = NumChunks("hLong")
        /\ loc[p].processed = 0

\* C2: an invocation that starts while a running IngestionRun exists for its
\* (slug, pdfHash) and that ends without being terminated has resumed that
\* run at lastProcessedChunkIndex + 1 and leaves every chunk of the document
\* stored, also when the Book row was not yet activated.
C2_Resumability ==
    \A p \in Procs :
        (pc[p] \in {"done", "exited"} /\ loc[p].runAtStart # 0) =>
            /\ pc[p] = "done"
            /\ loc[p].runId = loc[p].runAtStart
            /\ loc[p].resumeFrom = loc[p].lastAtStart + 1
            /\ StoredHashes(loc[p].bookId) = DocHashes(loc[p].pdfHash)

\* C3: in every state that invocations run one after the other can reach, at
\* most one Book row per slug is active.
C3_AtMostOneActive ==
    \A slug \in Slugs : Cardinality(ActiveBooks(slug)) <= 1

\* C4: after an invocation of a new version of a slug has failed or has been
\* terminated, the version of the slug that was active when it started is
\* still active.
C4_PreviousVersionIntact ==
    \A p \in Procs :
        pc[p] \in {"exited", "killed"} =>
            \A b \in loc[p].activeAtStart :
                books[b].pdf_hash # loc[p].pdfHash => books[b].is_active

\* C5: an active Book has a chunk row for every chunk of its document.
C5_ActiveBookComplete ==
    \A b \in DOMAIN books :
        books[b].is_active => DocHashes(books[b].pdf_hash) \subseteq StoredHashes(b)

\* C5 witness: the two-batch document is active after an invocation that was
\* not the first for it.
C5_Witness ==
    \E b \in DOMAIN books :
        /\ books[b].is_active
        /\ books[b].pdf_hash = "hLong"
        /\ Cardinality(StoredHashes(b)) = Cardinality(DocHashes("hLong"))
        /\ \E r \in DOMAIN ingestion_runs :
              ingestion_runs[r].book_id = b /\ ingestion_runs[r].status # "completed"

\* C6: an invocation of (slug, pdfHash) that meets no fault and is not
\* terminated ends with its run completed and the Book (slug, pdfHash) the one
\* active Book of the slug, whatever versions were ingested before.
C6_FaultFreeRunActivates ==
    \A p \in Procs :
        pc[p] \in {"done", "exited"} =>
            /\ pc[p] = "done"
            /\ ingestion_runs[loc[p].runId].status = "completed"
            /\ ActiveBooks(loc[p].slug) = {loc[p].bookId}
            /\ books[loc[p].bookId].pdf_hash = loc[p].pdfHash

\* C7: no chunk content of a book is embedded more than once, and once an
\* invocation has run to its end every chunk content of the document has been
\* embedded exactly once.
C7_EmbeddedExactlyOnce ==
    /\ \A k \in DOMAIN embedded : embedded[k] <= 1
    /\ \A p \in Procs :
          pc[p] = "done" =>
              \A x \in DocHashes(loc[p].pdfHash) :
                  /\ <<loc[p].bookId, x>> \in DOMAIN embedded
                  /\ embedded[<<loc[p].bookId, x>>] = 1

\* C8: an invocation that has exited on an embedding error or on a failed
\* batch insert has left its IngestionRun failed, with the error message.
C8_DependencyErrorMarksFailed ==
    \A p \in Procs :
        (pc[p] = "exited" /\ loc[p].error \in {"429", "error", "error429", "insert_error"}) =>
            /\ ingestion_runs[loc[p].runId].status = "failed"
            /\ ingestion_runs[loc[p].runId].error_message = loc[p].error

\* C9: withRetry calls the embedding service at most 5 times for one batch.
C9_AtMostFiveAttempts ==
    \A p \in Procs : loc[p].calls <= 5

\* C10: the status of an IngestionRun that is completed or failed never
\* changes again.
C10_OneTerminalState ==
    [][\A r \in DOMAIN ingestion_runs :
          ingestion_runs[r].status # "running" =>
              ingestion_runs'[r].status = ingestion_runs[r].status]_vars

\* C11: whatever the interleaving of two invocations, the chunks table never
\* holds two rows with the same (book_id, chunk_hash), and once two invocations
\* of the same (slug, pdfHash) have both ended the chunk hashes stored for the
\* Book are those of the document, as after a single uninterrupted run.
C11_OverlapSafe ==
    /\ Cardinality({<<chunks[i].book_id, chunks[i].chunk_hash>> : i \in DOMAIN chunks})
          = Len(chunks)
    /\ \A p, q \in Procs :
          (/\ p # q
           /\ pc[p] \in {"done", "exited"}
           /\ pc[q] \in {"done", "exited"}
           /\ loc[p].slug = loc[q].slug
           /\ loc[p].pdfHash = loc[q].pdfHash) =>
              \E b \in DOMAIN books :
                  /\ books[b].slug = loc[p].slug
                  /\ books[b].pdf_hash = loc[p].pdfHash
                  /\ StoredHashes(b) = DocHashes(loc[p].pdfHash)

\* C11 witness: two invocations of the two-batch document have both ended, one
\* of them at the books insert the other had already made, and the document's
\* chunks are stored.
C11_Witness ==
    /\ pc[1] = "done"
    /\ pc[2] = "exited"
    /\ loc[1].pdfHash = "hLong"
    /\ loc[2].pdfHash = "hLong"
    /\ loc[2].error = "book_insert"
    /\ invocations = 2
    /\ \E b \in DOMAIN books : StoredHashes(b) = DocHashes("hLong")

\* The word set of a text (the lower-cased pieces between its runs of white
\* space), and the Jaccard overlap of the word sets of two texts compared with
\* num / den.
WordSet(text) == {toLowerCase(w) : w \in {SplitWhiteSpace(text)[i] : i \in DOMAIN SplitWhiteSpace(text)}}

JaccardAtLeast(a, b, num, den) ==
    Cardinality(WordSet(a) \cap WordSet(b)) * den >= num * Cardinality(WordSet(a) \cup WordSet(b))

JaccardAbove(a, b, num, den) ==
    Cardinality(WordSet(a) \cap WordSet(b)) * den > num * Cardinality(WordSet(a) \cup WordSet(b))

\* Sum of the token counts of the passages of a list.
TotalTokens(list) ==
    LET sum[i \in 0..Len(list)] ==
          IF i = 0 THEN 0 ELSE sum[i - 1] + countTokens(list[i].content)
    IN sum[Len(list)]

\* C12: the passages assembleContext returns in usedChunks have at most 3000
\* tokens together.
C12_BudgetEnforced ==
    context.pc = "returned" => TotalTokens(context.usedChunks) <= 3000

PagePair(c) == <<c.book_slug, c.page_number>>

FirstWith(list, pair) ==
    CHOOSE i \in DOMAIN list :
        PagePair(list[i]) = pair /\ \A j \in 1..(i - 1) : PagePair(list[j]) # pair

\* C14: the returned citations hold one entry for each (bookSlug, pageNumber)
\* pair of usedChunks and no other entry, in the order in which the pairs first
\* occur in usedChunks, each with the similarity of the first used passage of
\* its pair.
C14_CitationsPerPage ==
    context.pc = "returned" =>
        LET used == context.usedChunks
            cites == context.citations
        IN /\ {PagePair(cites[k]) : k \in DOMAIN cites} = {PagePair(used[i]) : i \in DOMAIN used}
           /\ \A k, l \in DOMAIN cites : PagePair(cites[k]) = PagePair(cites[l]) => k = l
           /\ \A k, l \in DOMAIN cites :
                 k < l => FirstWith(used, PagePair(cites[k])) < FirstWith(used, PagePair(cites[l]))
           /\ \A k \in DOMAIN cites :
                 cites[k].similarity = used[FirstWith(used, PagePair(cites[k]))].similarity

\* C14 witness: two used passages of one page with different similarities, and
\* a used passage of another page, gave two citations.
C14_Witness ==
    /\ context.pc = "returned"
    /\ Len(context.usedChunks) = 3
    /\ Len(context.citations) = 2
    /\ \E i, j \in DOMAIN context.usedChunks :
          /\ i < j
          /\ PagePair(context.usedChunks[i]) = PagePair(context.usedChunks[j])
          /\ context.usedChunks[i].similarity # context.usedChunks[j].similarity

\* The elements of a sequence, and the position of an element in it.
Range(seq) == {seq[i] : i \in DOMAIN seq}

PositionIn(seq, x) == CHOOSE i \in DOMAIN seq : seq[i] = x

\* C15: the list retrieve returns is the vector rows in the order storage
\* ranked them, each with its own similarity, followed by the keyword rows
\* whose id is not among the vector rows, in keyword order, each with
\* similarity 0.45.
C15_MergeOrdering ==
    (retrieval.pc = "returned" /\ "match_chunks" \in Range(retrieval.issued)) =>
        LET v == retrieval.vectorResponse.data
            k == retrieval.keywordResponse.data
            res == retrieval.results
            tail == (Len(v) + 1)..Len(res)
        IN /\ Len(res) = Len(v) + Cardinality(Range(k) \ Range(v))
           /\ \A i \in DOMAIN v : /\ res[i].id = chunks[v[i]].id
                                  /\ res[i].similarity = retrieval.embedding[v[i]]
           /\ {res[i].id : i \in tail} = {chunks[c].id : c \in Range(k) \ Range(v)}
           /\ \A i \in tail : res[i].similarity = 45
           /\ \A i, j \in tail :
                 i < j => PositionIn(k, res[i].id) < PositionIn(k, res[j].id)

\* C15 witness: a call returned two vector results and, after them, a keyword
\* result, while another keyword row was among the vector rows.
C15_Witness ==
    /\ retrieval.pc = "returned"
    /\ Len(retrieval.vectorResponse.data) = 2
    /\ Len(retrieval.keywordResponse.data) = 2
    /\ Len(retrieval.results) = 3
    /\ retrieval.results[1].similarity = 90
    /\ retrieval.results[2].similarity = 42
    /\ retrieval.results[3].similarity = 45

\* C16: a call of retrieve with a bookSlugs list none of whose slugs belongs to
\* an active book issues neither search, and when the slugs have been resolved
\* it has returned an empty list with retrieval latency 0.
C16_EmptyFilterShortCircuit ==
    LET slugs == Range(retrieval.options.bookSlugs)
    IN (/\ retrieval.pc # "idle"
        /\ slugs # {}
        /\ \A b \in DOMAIN books : books[b].slug \in slugs => ~books[b].is_active) =>
           /\ "match_chunks" \notin Range(retrieval.issued)
           /\ "keyword" \notin Range(retrieval.issued)
           /\ retrieval.pc \in {"embedQuery", "resolve", "returned", "threw"}
           /\ retrieval.pc = "returned" =>
                 retrieval.results = <<>> /\ retrieval.latency.retrieval = 0
           /\ retrieval.pc = "threw" =>
                 retrieval.error \in {"embedQuery", "Failed to resolve book slugs"}

\* C16 witness: a call filtered on an unknown slug and the slug of a book that
\* is not active has returned.
C16_Witness ==
    /\ retrieval.pc = "returned"
    /\ retrieval.options.bookSlugs = <<"nao-existe", "livro-c">>
    /\ retrieval.issued = <<"embedQuery", "books">>
    /\ retrieval.latency.embedding > 0

\* The part of a text before its first blank line (the whole text when it has
\* none), and whether a text is the end of another, starting at a word.
BeforeBlankLine(text) ==
    LET breaks == {i \in 1..(Len(text) - 1) : text[i] = NL /\ text[i + 1] = NL}
    IN IF breaks = {} THEN text
       ELSE SubSeq(text, 1, (CHOOSE i \in breaks : \A j \in breaks : i <= j) - 1)

IsWordSuffix(part, text) ==
    /\ Len(part) <= Len(text)
    /\ part = SubSeq(text, Len(text) - Len(part) + 1, Len(text))
    /\ part # <<>> => part[1] \notin WhiteSpace
    /\ Len(part) < Len(text) => text[Len(text) - Len(part)] \in WhiteSpace

\* C17: every chunk chunkPages returns has at least 50 tokens and its text
\* before the overlap was prepended has at most 512 tokens.
C17_ChunkSizeBound ==
    chunker.pc = "returned" =>
        \A i \in DOMAIN chunker.chunks :
            /\ countTokens(chunker.chunks[i].content) >= 50
            /\ countTokens(chunker.validChunks[i].text) <= 512

\* The words of a text in order, and its last n words joined by single spaces.
WordsOf(text) ==
    LET isWord(x) == x \notin WhiteSpace
    IN SelectSeq(text, isWord)

LastWords(text, n) ==
    JoinWords(SubSeq(WordsOf(text), Len(WordsOf(text)) - n + 1, Len(WordsOf(text))))

\* C18 as amended: the content of every returned chunk but the first is the
\* last n words of the previous chunk's pre-overlap text joined by single
\* spaces, a blank line and the chunk's own text, n being the number of words
\* taken from the end backward while they have at most 100 tokens together;
\* with n = 0 the content is the chunk's own text.
C18_OverlapIsLastWords ==
    chunker.pc = "returned" =>
        \A i \in DOMAIN chunker.chunks :
            i > 1 =>
                LET prev == chunker.validChunks[i - 1].text
                    own == chunker.validChunks[i].text
                IN \E n \in 0..Len(WordsOf(prev)) :
                      /\ \A m \in 1..n : countTokens(LastWords(prev, m)) <= 100
                      /\ n < Len(WordsOf(prev)) => countTokens(LastWords(prev, n + 1)) > 100
                      /\ chunker.chunks[i].content =
                            IF n = 0 THEN own ELSE LastWords(prev, n) \o <<NL, NL>> \o own

\* C18 witness: a returned chunk starts with the last words of the chunk
\* before it, which that chunk's text holds with a blank line between them.
C18_Witness ==
    /\ chunker.pc = "returned"
    /\ \E i \in DOMAIN chunker.chunks :
          /\ i > 1
          /\ BeforeBlankLine(chunker.chunks[i].content) = <<"w30", SP, "e30.", SP, "e40.">>
          /\ chunker.validChunks[i - 1].text = <<"w30", SP, "e30.", NL, NL, "e40.">>

\* C18: for every returned chunk but the first, the part of its content before
\* the first blank line is a suffix of the previous chunk's pre-overlap text,
\* starting at a word, of at most 100 tokens.
C18_OverlapIsSuffix ==
    chunker.pc = "returned" =>
        \A i \in DOMAIN chunker.chunks :
            i > 1 =>
                /\ IsWordSuffix(BeforeBlankLine(chunker.chunks[i].content),
                                chunker.validChunks[i - 1].text)
                /\ countTokens(BeforeBlankLine(chunker.chunks[i].content)) <= 100

\* The events /api/chat sends when nothing it awaits fails, up to the done
\* event: the meta event of its path, then one chunk event for every piece of
\* the answer.
MetaAndChunks ==
    <<IF request.is_fallback
      THEN [type |-> "meta", citations |-> <<>>, is_fallback |-> TRUE,
            context_chunks_used |-> 0]
      ELSE [type |-> "meta", citations |-> context.citations, is_fallback |-> FALSE,
            context_chunks_used |-> Len(context.usedChunks)]>>
    \o [i \in DOMAIN request.fullAnswer |->
           [type |-> "chunk", text |-> request.fullAnswer[i]]]

DoneEvent ==
    [type |-> "done", latency_ms |-> retrieval.latency,
     tokens |-> [embedding |-> retrieval.embeddingTokens,
                 llm_input |-> request.promptTokens,
                 llm_output |-> request.answerTokens]]

\* The responses of a request that got past validation, given what retrieve,
\* assembleContext and the language model did; the log write is no part of it.
ResponsesWithoutLog ==
    IF request.route = "search"
    THEN IF retrieval.pc = "threw"
         THEN {Response(500, [error |-> retrieval.error])}
         ELSE {Response(200, [results |-> retrieval.results,
                              query_embedding_tokens |-> retrieval.embeddingTokens,
                              latency_ms |-> retrieval.latency])}
    ELSE IF retrieval.pc = "threw"
         THEN {Response(200, <<[type |-> "error", message |-> retrieval.error]>>)}
         ELSE {Response(200, MetaAndChunks \o <<[type |-> "error", message |-> m]>>) :
                  m \in {"completion failed", "stream failed"}}
              \cup {Response(200, MetaAndChunks \o <<DoneEvent>>)}
              \cup {Response(200, MetaAndChunks \o <<DoneEvent, e>>) :
                       e \in IF request.is_fallback THEN {}
                             ELSE {[type |-> "suggestions",
                                    questions |-> <<"E depois?">>]}}

\* C20: no request is cut short by the log write, and the response of a
\* request that called logSearch is one that retrieve, assembleContext and the
\* language model account for, with a done event and no error event after
\* it, whether the insert succeeded, returned an error, threw or is still
\* outstanding.
C20_LogFailureIsolated ==
    /\ request.pc # "aborted"
    /\ (request.pc = "responded" /\ request.logPromise # "none") =>
          /\ Response(request.status, request.responseBody) \in ResponsesWithoutLog
          /\ request.route = "chat" =>
                \A i \in DOMAIN request.responseBody :
                    request.responseBody[i].type # "error"

\* C20 witness: a chat request has been answered in full, suggestions
\* included, and its log write threw.
C20_Witness ==
    /\ request.pc = "responded"
    /\ request.route = "chat"
    /\ request.logOutcome = "throws"
    /\ request.responseBody # <<>>
    /\ request.responseBody[Len(request.responseBody)].type = "suggestions"

\* C21: the pageNumber of every returned chunk is the page number of the
\* paragraph its text starts with.
C21_PageOfFirstParagraph ==
    chunker.pc = "returned" =>
        \A i \in DOMAIN chunker.chunks :
            chunker.chunks[i].pageNumber =
                chunker.paragraphsWithMeta[chunker.validChunks[i].first].pageNumber

C23_RetryOnlyOnRateLimit ==
    \A p \in Procs :
        (pc[p] = "embed" /\ loc[p].calls > 0) => loc[p].lastOutcome = "429"

\* C24: no step changes or removes a chunk row that is stored: the table
\* after the step starts with the table before it.
C24_CommittedRowsUntouched ==
    [][/\ Len(chunks') >= Len(chunks)
       /\ SubSeq(chunks', 1, Len(chunks)) = chunks]_vars

\* C24 witness: an invocation has run to its end after another one left its
\* run failed with the rows of a first batch stored.
C24_Witness ==
    /\ \E p \in Procs : pc[p] = "done"
    /\ \E r \in DOMAIN ingestion_runs :
          /\ ingestion_runs[r].status = "failed"
          /\ Cardinality(StoredHashes(ingestion_runs[r].book_id)) >= BATCH_SIZE - 1

\* C25: the chunks of an embedding request have hashes that differ from each
\* other and from every hash stored for the book (invocations run one after
\* the other, so what is stored is what the layer-1 select saw).
C25_RequestHashesNew ==
    \A p \in Procs :
        pc[p] = "embed" =>
            LET hashes == {loc[p].newChunks[i].chunkHash : i \in DOMAIN loc[p].newChunks}
            IN /\ Cardinality(hashes) = Len(loc[p].newChunks)
               /\ hashes \cap StoredHashes(loc[p].bookId) = {}

\* C26: the embedding paired with the i-th new chunk of a request is the one
\* of the response entry that declares index i (0-based), and every stored
\* row holds the embedding of its own content.
C26_EmbeddingsRealigned ==
    /\ \A p \in Procs :
          pc[p] = "upsert" =>
              \A i \in DOMAIN loc[p].newChunks :
                  \E k \in DOMAIN loc[p].embeddingResponse :
                      /\ loc[p].embeddingResponse[k].index = i - 1
                      /\ loc[p].embeddingResponse[k].embedding = loc[p].embeddings[i]
    /\ \A r \in DOMAIN chunks : chunks[r].embedding = [of |-> chunks[r].content]

\* C26 witness: the rows of a request of several chunks are stored after the
\* service listed its embeddings last first.
C26_Witness ==
    \E p \in Procs :
        /\ pc[p] = "upsert"
        /\ Len(loc[p].newChunks) > 1
        /\ loc[p].embeddingResponse[1].index = Len(loc[p].newChunks) - 1

\* C27: in every state that two invocations whose steps interleave can
\* reach, no two Book rows of one slug are active.
C27_OneActivePerSlugInterleaved ==
    \A a, b \in DOMAIN books :
        (books[a].slug = books[b].slug /\ books[a].is_active /\ books[b].is_active)
            => a = b

\* C28: every result a call of retrieve returns is a chunk of a book that is
\* active, whichever search found it and with or without a bookSlugs filter.
C28_ResultsFromActiveBooks ==
    retrieval.pc = "returned" =>
        \A i \in DOMAIN retrieval.results :
            books[retrieval.results[i].book_id].is_active

\* C29: a call of retrieve in which a storage call failed (the slug
\* resolution, the vector search or the keyword search) does not return a
\* result list.
C29_StorageFailurePropagates ==
    retrieval.pc = "returned" =>
        /\ retrieval.error = ""
        /\ ~retrieval.vectorResponse.error
        /\ ~retrieval.keywordResponse.error

\* C30: a search is issued only when embedQuery has completed; when the query
\* has keyword terms both searches are in flight together, neither issued
\* after the other settled; and nothing is merged or returned while a search
\* is still in flight.
C30_EmbedThenParallelSearches ==
    (retrieval.pc # "idle" /\ "match_chunks" \in Range(retrieval.issued)) =>
        /\ retrieval.pc # "embedQuery"
        /\ retrieval.embedding \in QueryEmbeddings
        /\ retrieval.issued[1] = "embedQuery"
        /\ Len(extractKeywordTerms(retrieval.options.query)) > 0 =>
              "keyword" \in Range(retrieval.issued)
        /\ retrieval.pending # {} =>
              retrieval.pc = "search" /\ retrieval.results = <<>>
        /\ retrieval.pc \in {"returned", "threw"} => retrieval.pending = {}

\* C30 witness: a call has returned merged results of a vector search and a
\* keyword search issued together after the embedding.
C30_Witness ==
    /\ retrieval.pc = "returned"
    /\ retrieval.issued = <<"embedQuery", "match_chunks", "keyword">>
    /\ Len(retrieval.vectorResponse.data) > 0
    /\ Len(retrieval.keywordResponse.data) > 0
    /\ Len(retrieval.results) > Len(retrieval.vectorResponse.data)

\* C31: an iteration of the budget loop that removes a passage from
\* usedChunks removes one whose similarity is the minimum of the passages
\* accepted at that moment and strictly below the incoming passage's; an
\* incoming passage that does not fit and whose similarity is equal to or
\* below that minimum leaves usedChunks unchanged.
C31_EvictsOnlyLowestForHigher ==
    [][context.pc = "budget" =>
          LET used == context.usedChunks
              chunk == context.deduplicated[context.i]
              removed == Range(used) \ Range(context'.usedChunks)
              over == TotalTokens(used) + countTokens(chunk.content) > 3000
          IN /\ \A out \in removed :
                   /\ \A c \in Range(used) : out.similarity <= c.similarity
                   /\ out.similarity < chunk.similarity
             /\ (/\ over
                 /\ used # <<>>
                 /\ \A c \in Range(used) : chunk.similarity <= c.similarity)
                    => context'.usedChunks = used]_vars

\* C31 witness: assembleContext has returned after an iteration evicted, from
\* two accepted passages of different similarity, the lower one for an
\* incoming passage of higher similarity.
C31_Witness ==
    /\ context.pc = "returned"
    /\ \E k \in DOMAIN context.evicted :
          /\ Len(context.evicted[k].from) > 1
          /\ \E c \in Range(context.evicted[k].from) :
                context.evicted[k].out.similarity < c.similarity
          /\ context.evicted[k].out.similarity < context.evicted[k].in.similarity

\* Whether passage x comes before passage y by (bookSlug, pageNumber), a
\* missing page counting as page 0.
PageOrderBefore(x, y) ==
    LET page(r) == IF r.page_number = null THEN 0 ELSE r.page_number
    IN \/ SlugBefore(x.book_slug, y.book_slug)
       \/ x.book_slug = y.book_slug /\ page(x) < page(y)

\* C32: the usedChunks assembleContext returns are passages of the input, each
\* once, in ascending (bookSlug, pageNumber) order and, within one page, in
\* input order; contextText has one block per passage of usedChunks, in the
\* same order, with its title, page and content.
C32_ReadingOrderKept ==
    context.pc = "returned" =>
        LET used == context.usedChunks
            text == context.contextText
        IN /\ \A i \in DOMAIN used : used[i] \in Range(context.results)
           /\ \A i, j \in DOMAIN used :
                 i < j =>
                    /\ used[i] # used[j]
                    /\ ~PageOrderBefore(used[j], used[i])
                    /\ ~PageOrderBefore(used[i], used[j]) =>
                          PositionIn(context.results, used[i])
                             < PositionIn(context.results, used[j])
           /\ Len(text) = Len(used)
           /\ \A i \in DOMAIN used :
                 /\ text[i].content = used[i].content
                 /\ text[i].book_title = used[i].book_title
                 /\ text[i].page = used[i].page_number

\* C32 witness: a call on a list given last page first has returned two
\* passages after evicting a third.
C32_Witness ==
    /\ context.pc = "returned"
    /\ Len(context.usedChunks) = 2
    /\ Len(context.contextText) = 2
    /\ context.evicted # <<>>
    /\ PageOrderBefore(context.results[3], context.results[2])
    /\ PageOrderBefore(context.results[2], context.results[1])

\* C33: of two input passages whose word-set overlap is above 0.8, the one
\* that deduplication keeps is not the one of lower similarity.
C33_DuplicateKeepsHigherSimilarity ==
    context.pc \in {"budget", "build", "returned"} =>
        \A i, j \in DOMAIN context.results :
            (/\ i # j
             /\ JaccardAbove(context.results[i].content, context.results[j].content, 8, 10)
             /\ context.results[i] \in Range(context.deduplicated)
             /\ context.results[j] \notin Range(context.deduplicated))
                => context.results[j].similarity <= context.results[i].similarity

\* C34: once the chat handler has looked at what retrieve returned, it is on
\* the fallback path exactly when the list is empty or its first result has a
\* similarity below 0.5; a non-empty list of keyword matches only (all at
\* 0.45) is on the fallback path; on the fallback path assembleContext is not
\* called and the meta event has no citations and context_chunks_used = 0.
C34_FallbackDecision ==
    (/\ request.pc \notin {"idle", "retrieve"}
     /\ request.route = "chat"
     /\ retrieval.pc = "returned") =>
        LET results == retrieval.results
            weak == results = <<>> \/ results[1].similarity < 50
            metas == {e \in Range(request.events) : e.type = "meta"}
        IN /\ request.is_fallback <=> weak
           /\ (\A i \in DOMAIN results : results[i].similarity = 45)
                 => request.is_fallback
           /\ request.is_fallback =>
                 /\ context.pc = "idle"
                 /\ \A e \in metas : /\ e.citations = <<>>
                                      /\ e.context_chunks_used = 0
                                      /\ e.is_fallback
           /\ ~request.is_fallback =>
                 /\ context.pc # "idle"
                 /\ \A e \in metas : ~e.is_fallback

\* C34 witness: a chat request whose results were keyword matches only has
\* been answered on the fallback path, its meta event sent.
C34_Witness ==
    /\ request.pc = "responded"
    /\ request.route = "chat"
    /\ retrieval.pc = "returned"
    /\ retrieval.results # <<>>
    /\ \A i \in DOMAIN retrieval.results : retrieval.results[i].similarity = 45
    /\ request.is_fallback
    /\ \E e \in Range(request.events) : e.type = "meta"
    /\ \E e \in Range(request.events) : e.type = "done"

\* C35: for every list retrieve returns to the chat handler, the handler is on
\* the fallback path exactly when no result of the list reaches 0.5, so that
\* deciding on the first result is deciding on the best one; and the first
\* result is below 0.5 exactly when the highest similarity of the list is.
C35_FirstResultDecidesAsBest ==
    (/\ request.pc \notin {"idle", "retrieve"}
     /\ request.route = "chat"
     /\ retrieval.pc = "returned") =>
        LET results == retrieval.results
            best == CHOOSE s \in {results[i].similarity : i \in DOMAIN results} \cup {0} :
                       \A i \in DOMAIN results : results[i].similarity <= s
        IN /\ request.is_fallback <=> best < 50
           /\ results # <<>> => (results[1].similarity < 50 <=> best < 50)

\* C35 witness: the chat handler has decided on a list whose first result is a
\* vector match below 0.45 and which holds a keyword match after it.
C35_Witness ==
    /\ request.pc \notin {"idle", "retrieve"}
    /\ request.route = "chat"
    /\ retrieval.pc = "returned"
    /\ Len(retrieval.results) > 1
    /\ retrieval.results[1].similarity < 45
    /\ retrieval.vectorResponse.data # <<>>
    /\ \E i \in DOMAIN retrieval.results : i > 1 /\ retrieval.results[i].similarity = 45

\* C36: an IngestionRun marked completed has chunks_processed plus
\* chunks_skipped equal to the number of chunks of its document.
C36_CountersCoverDocument ==
    \A r \in DOMAIN ingestion_runs :
        ingestion_runs[r].status = "completed" =>
            ingestion_runs[r].chunks_processed + ingestion_runs[r].chunks_skipped
                = NumChunks(ingestion_runs[r].pdf_hash)

\* The event types of the response stream of a chat request, in order, and
\* the order every stream keeps: chunk events come after the meta event and
\* before any other event; one done event at most, after a meta event; one
\* suggestions event at most, right after the done event and not on the
\* fallback path; one error event at most, with no done event before it and
\* no event after it; the stream is closed once, after a last event that is
\* done, suggestions or error, and nothing is sent after that.
EventTypes == [i \in DOMAIN request.events |-> request.events[i].type]

EventOrderKept ==
    LET t == EventTypes
        at(type) == {i \in DOMAIN t : t[i] = type}
    IN /\ Cardinality(at("meta")) <= 1
       /\ Cardinality(at("done")) <= 1
       /\ Cardinality(at("suggestions")) <= 1
       /\ Cardinality(at("error")) <= 1
       /\ \A i \in at("meta") : i = 1
       /\ \A i \in at("chunk") : 1 \in at("meta") /\ \A j \in 2..(i - 1) : t[j] = "chunk"
       /\ \A i \in at("done") : 1 \in at("meta") /\ \A j \in 2..(i - 1) : t[j] = "chunk"
       /\ \A i \in at("suggestions") : i > 1 /\ t[i - 1] = "done" /\ ~request.is_fallback
       /\ \A i \in at("error") : i = Len(t) /\ at("done") = {}
       /\ request.closes = IF request.pc = "responded" THEN 1 ELSE 0
       /\ request.pc = "responded" =>
             /\ request.responseBody = request.events
             /\ t # <<>>
             /\ t[Len(t)] \in {"done", "suggestions", "error"}

\* C37 as stated: every response stream keeps the event order and, once it
\* holds an event, starts with a meta event.
C37_MetaFirstEventOrder ==
    (request.pc # "idle" /\ request.route = "chat" /\ request.status = 200) =>
        /\ EventOrderKept
        /\ EventTypes # <<>> => EventTypes[1] = "meta"

\* C37 as amended: every response stream keeps the event order; it starts
\* with a meta event unless retrieve failed, and then it holds the error
\* event alone.
C37_EventOrder ==
    (request.pc # "idle" /\ request.route = "chat" /\ request.status = 200) =>
        /\ EventOrderKept
        /\ (EventTypes # <<>> /\ EventTypes[1] # "meta") =>
              /\ EventTypes = <<"error">>
              /\ retrieval.pc = "threw"
        /\ (EventTypes # <<>> /\ retrieval.pc = "returned") => EventTypes[1] = "meta"

\* C37 witness: a stream was closed after a meta event, a chunk event, the
\* done event and the suggestions event.
C37_Witness ==
    /\ request.pc = "responded"
    /\ request.route = "chat"
    /\ request.closes = 1
    /\ EventTypes = <<"meta", "chunk", "done", "suggestions">>

\* The words of a list of texts, in order.
WordsOfAll(texts) ==
    LET words[i \in 0..Len(texts)] ==
            IF i = 0 THEN <<>> ELSE words[i - 1] \o WordsOf(texts[i].text)
    IN words[Len(texts)]

\* C38: the raw chunks, before the minimum-size filter, hold the words of the
\* paragraphs of the cleaned pages, every word once and in document order:
\* no paragraph, sentence or trailing fragment is lost or repeated.
C38_PackingLosesNoText ==
    chunker.pc \in {"overlap", "returned"} =>
        WordsOfAll(chunker.rawChunks) = WordsOfAll(chunker.paragraphsWithMeta)

====
